---- MODULE Spec2Model ----
(***************************************************************************)
(* Planetoids: the physics core (Physics, src/physics.ts) and the parts of *)
(* the game loop (Game, src/main.ts) that drive it.                        *)
(*                                                                         *)
(* Number representation.  The program computes with IEEE doubles on 3-D   *)
(* vectors.  The model is fixed point and one-dimensional:                 *)
(*   - lengths, positions and velocities are integers in 1/100 of a world  *)
(*     unit (per second for velocities); fuel and stamina are in 1/100;    *)
(*   - deltaTime is in 1/100 s; factors in [0,1] are in 1/1000; drag       *)
(*     coefficients are in 1/100000;                                       *)
(*   - a product that leaves the grid is truncated toward zero (Quot);     *)
(*   - the avatar, the planet centres, the sun and the camera's look       *)
(*     direction all lie on the world Y axis, so a vector is its signed    *)
(*     Y component, normalize() is the sign, and the global up (0,1,0) of  *)
(*     the source is +1.  Strafing (KeyA/KeyD) leaves the axis and is not  *)
(*     modelled;                                                           *)
(*   - the velocity has a second component across the axis (tangential,    *)
(*     along world X), which surface normals on the axis leave alone; the  *)
(*     position it integrates to is lateral, and a step is modelled only   *)
(*     from a position on the axis (lateral = 0).                          *)
(* Planets are stationary: World.updatePlanets is not modelled.            *)
(***************************************************************************)
EXTENDS Integers, Sequences, FiniteSets, TLC

VARIABLES
    world,      \* World: planets (list of [position, radius, index]), sun, upgrades
    player,     \* PlayerController: position, velocity, onGround, fuel, ...
    physics,    \* Physics: lastZone, zoneSwitchDelay and the tunable forces
    controls,   \* Game.controls (ControlsState)
    gameState,  \* Game.gameState
    camera,     \* the camera's world direction on the axis (+1 / -1)
    ui,         \* UI: the upgrade menu (display, the station's planet, the points shown)
    result,     \* what the last modelled call returned
    pre,        \* history: the arguments / state the last call started from
    hist,       \* history: zones returned and proposed by the last calls
    ticks,      \* history: number of calls made so far
    inputs      \* history: number of input events handled so far

vars == <<world, player, physics, controls, gameState, camera, ui, result, pre, hist, ticks, inputs>>

-----------------------------------------------------------------------------
(* Bounds of the model *)

\* number of frames (Game.animate) explored in one behaviour of Spec
MaxTicks == 2

\* number of successive handlePlanetCollisions calls in one behaviour of SpecColl
MaxCalls == 2

\* positions offered to checkPlayerEnvironment: 0 .. MaxDistSteps grid steps above a surface
MaxDistSteps == 13

\* number of input events (key presses and releases, menu clicks) of a behaviour
MaxInputs == 3

\* length of the body lists handed to the core operations in SpecCore
MaxBodies == 2

\* number of ticks of the straight-drop scenario
MaxDropTicks == 40

-----------------------------------------------------------------------------
(* Arithmetic helpers *)

Abs(x) == IF x < 0 THEN -x ELSE x

\* Vector3.normalize() on the axis: a zero vector stays zero (three.js divides by length || 1)
normalize(x) == IF x > 0 THEN 1 ELSE IF x < 0 THEN -1 ELSE 0

\* multiplication by a scale factor followed by rounding, truncating toward zero
Quot(a, b) == IF a >= 0 THEN a \div b ELSE -((-a) \div b)

Min(a, b) == IF a < b THEN a ELSE b

Max(a, b) == IF a > b THEN a ELSE b

\* F applied to the value of x: x is evaluated once, like a local that is computed
\* once and then read several times
Let(F(_), x) == CHOOSE y \in {F(v) : v \in {x}} : TRUE

\* the last n elements of a sequence
Last(s, n) == IF Len(s) <= n THEN s ELSE SubSeq(s, Len(s) - n + 1, Len(s))

-----------------------------------------------------------------------------
(* Physics constants (constructor and locals), in model units *)

null == 0

\* 'Infinity', the start value of the nearest-planet scan
Infinity == 1000000000

\* an absent property of a returned object (reads as undefined)
undefined == -1

groundThreshold == 80

zoneHysteresis == 100

groundCollisionRadius == 50

collisionRadius == 200

alignmentDistance == 5000

inAtmosphereDrag == 1000

\* line 188: Math.min(force, 20)
gravityCap == 2000

\* player.ts line 310: Math.PI / 2, in 1/10000 rad
halfPi == 15708

\* player.ts line 158: 0.002 rad per pixel, in 1/10000 rad
mouseSensitivity == 20

\* an EnvironmentResult / CollisionResult that carries nothing: no planet, nothing hit
NoEnvironmentResult ==
    [inSpace |-> FALSE, inTransition |-> FALSE, inAtmosphere |-> FALSE,
     onGround |-> FALSE, nearest |-> [planet |-> null, distance |-> Infinity],
     atmosphereZone |-> "null", transitionFactor |-> undefined, proposed |-> "null",
     lastZone |-> "null", zoneSwitchDelay |-> 0]

NoCollisionResult == [onGround |-> FALSE, collidedPlanet |-> null, surfaceNormal |-> <<>>]

-----------------------------------------------------------------------------
(* Reading a body's radius: (body.geometry as SphereGeometry).parameters.radius *)

\* A body's geometry is "sphere" (parameters.radius is a number), "box" (it has
\* parameters but no radius among them: the read gives undefined), "plain" (a
\* BufferGeometry without parameters) or "none" (no geometry).  The unguarded read
\* raises a TypeError for the last two.
radiusThrows(body) == body.geometry \in {"plain", "none"}

\* the unguarded read gives a number; with undefined every distance computed from it is
\* NaN, and a comparison with NaN is false
radiusIsNumber(body) == body.geometry = "sphere"

-----------------------------------------------------------------------------
(* Physics.getNearestPlanet *)

\* the forEach visits every planet, so the call raises if any of them does
getNearestPlanetThrows(position, planets) ==
    \E i \in 1 .. Len(planets) : radiusThrows(planets[i])

RECURSIVE nearestScan(_, _, _, _)
nearestScan(position, planets, i, best) ==
    IF i > Len(planets) THEN best
    ELSE LET distance == Abs(position - planets[i].position) - planets[i].radius
         IN  nearestScan(position, planets, i + 1,
                 IF radiusIsNumber(planets[i]) /\ distance < best.distance
                 THEN [planet |-> i, distance |-> distance]
                 ELSE best)

getNearestPlanet(position, planets) ==
    nearestScan(position, planets, 1, [planet |-> null, distance |-> Infinity])

-----------------------------------------------------------------------------
(* Physics.checkPlayerEnvironment *)

\* lines 92-108: the zone proposed for this call, before the switch delay
proposedZone(distance, planetRadius, onGround, lastZone) ==
    IF onGround THEN "surface"
    ELSE IF distance * 1000 < planetRadius * 375      \* atmosphereThreshold * 0.3
    THEN IF lastZone = "surface" /\ distance < groundThreshold + zoneHysteresis * 3
         THEN "surface"
         ELSE "low-atmosphere"
    ELSE IF distance * 100 <= planetRadius * 125 THEN "atmosphere"
    ELSE IF distance * 100 <= planetRadius * 150 THEN "upper-atmosphere"
    ELSE "deep-space"

\* lines 110-125: the switch delay; returns the zone reported and the new counter
delayZoneSwitchNoWait(lastZone, zoneSwitchDelay, atmosphereZone) ==
    [atmosphereZone |-> atmosphereZone, zoneSwitchDelay |-> 0]

delayZoneSwitch(lastZone, zoneSwitchDelay, atmosphereZone) ==
    IF lastZone # "null" /\ lastZone # atmosphereZone
    THEN IF zoneSwitchDelay + 1 < 3
         THEN [atmosphereZone |-> lastZone, zoneSwitchDelay |-> zoneSwitchDelay + 1]
         ELSE [atmosphereZone |-> atmosphereZone, zoneSwitchDelay |-> 0]
    ELSE [atmosphereZone |-> atmosphereZone, zoneSwitchDelay |-> 0]

\* lines 69-79: the ground test, wider when the stored zone is surface
groundTestNoHysteresis(distance, lastZone) == distance < groundThreshold

groundTest(distance, lastZone) ==
    IF lastZone = "surface"
    THEN distance < groundThreshold + zoneHysteresis
    ELSE distance < groundThreshold

\* lines 51-56: the result when there is no nearest planet; inTransition, inAtmosphere
\* and transitionFactor are absent from the returned object (the flags read as false)
noPlanetEnvironment(nearest, lastZone, zoneSwitchDelay) ==
    [inSpace |-> TRUE, inTransition |-> FALSE, inAtmosphere |-> FALSE,
     onGround |-> FALSE, nearest |-> nearest,
     atmosphereZone |-> "deep-space", transitionFactor |-> undefined,
     proposed |-> "deep-space",
     lastZone |-> lastZone, zoneSwitchDelay |-> zoneSwitchDelay]

\* The fields lastZone and zoneSwitchDelay of the result are the values the call
\* leaves in this.lastZone and this.zoneSwitchDelay; proposed is the zone before
\* the switch delay (a local of the source, kept for the properties).
checkPlayerEnvironment(playerPosition, planets, lastZone, zoneSwitchDelay) ==
    Let(LAMBDA nearest :
        (IF nearest.planet = null
        THEN noPlanetEnvironment(nearest, lastZone, zoneSwitchDelay)
        ELSE
        LET planetRadius == planets[nearest.planet].radius
            \* thresholds are radius * 1.25 and radius * 1.5, compared exactly
            inDeepSpace == nearest.distance * 100 > planetRadius * 150
            inAtmosphere == nearest.distance * 100 <= planetRadius * 125
            inUpperAtmosphere == ~inDeepSpace /\ ~inAtmosphere
            onGround == groundTest(nearest.distance, lastZone)
            \* (distance - atmosphereThreshold) / (outer - atmosphereThreshold)
            transitionFactor ==
                IF inUpperAtmosphere
                THEN Quot((nearest.distance * 4 - planetRadius * 5) * 1000, planetRadius)
                ELSE IF inDeepSpace THEN 1000 ELSE 0
            proposed == proposedZone(nearest.distance, planetRadius, onGround, lastZone)
            delayed == delayZoneSwitch(lastZone, zoneSwitchDelay, proposed)
        IN  [inSpace |-> inDeepSpace, inTransition |-> inUpperAtmosphere,
             inAtmosphere |-> inAtmosphere, onGround |-> onGround,
             nearest |-> nearest,
             atmosphereZone |-> delayed.atmosphereZone,
             transitionFactor |-> transitionFactor,
             proposed |-> proposed,
             lastZone |-> delayed.atmosphereZone,
             zoneSwitchDelay |-> delayed.zoneSwitchDelay]),
        getNearestPlanet(playerPosition, planets))

-----------------------------------------------------------------------------
(* Physics.handlePlanetCollisions *)

\* lines 211-218: the planet the scan stops at, null when it reaches the end of the list
RECURSIVE closestPenetrated(_, _, _, _)
closestPenetrated(playerPosition, planets, i, best) ==
    IF i > Len(planets) THEN best.planet
    ELSE LET distanceToSurface ==
                 Abs(playerPosition - planets[i].position) - planets[i].radius
         IN  closestPenetrated(playerPosition, planets, i + 1,
                 IF distanceToSurface < groundCollisionRadius
                    /\ distanceToSurface < best.distance
                 THEN [planet |-> i, distance |-> distanceToSurface]
                 ELSE best)

closestCollision(playerPosition, planets, i) ==
    closestPenetrated(playerPosition, planets, i, [planet |-> null, distance |-> Infinity])

RECURSIVE firstCollision(_, _, _)
firstCollision(playerPosition, planets, i) ==
    IF i > Len(planets) THEN null
    ELSE LET distanceToCenter == Abs(playerPosition - planets[i].position)
             distanceToSurface == distanceToCenter - planets[i].radius
         IN  IF radiusIsNumber(planets[i]) /\ distanceToSurface < groundCollisionRadius
             THEN i
             ELSE firstCollision(playerPosition, planets, i + 1)

\* lines 229-236: the velocity after a contact with outward normal `normal`
collisionVelocity(playerVelocity, normal) ==
    LET dot == playerVelocity * normal
    IN  IF dot < 0
        THEN Quot((playerVelocity - normal * dot) * 8, 10)
        ELSE playerVelocity

\* lines 229-236 for the component across the axis, which normal * dot does not reach:
\* it is damped with the rest of the vector when the avatar was moving inward
collisionTangentialUndamped(playerTangential, playerVelocity, normal) == playerTangential

collisionTangential(playerTangential, playerVelocity, normal) ==
    IF playerVelocity * normal < 0
    THEN Quot(playerTangential * 8, 10)
    ELSE playerTangential

\* the loop reads each planet's radius until the first collision, where it breaks
handlePlanetCollisionsThrows(playerPosition, planets) ==
    \E i \in 1 .. Len(planets) :
        /\ radiusThrows(planets[i])
        /\ firstCollision(playerPosition, SubSeq(planets, 1, i - 1), 1) = null

\* The argument collisionRadius_ is the fourth parameter of the source, which the body
\* never reads: the contact radius is the local groundCollisionRadius.
\* surfaceNormal is <<>> for null and <<n>> for a vector.  position and velocity are the
\* (mutated in place) arguments after the call; playerVelocity and playerTangential are
\* the two components of the source's playerVelocity vector.
handlePlanetCollisions(playerPosition, playerVelocity, playerTangential, planets, collisionRadius_) ==
    Let(LAMBDA hit :
        (IF hit = null
        THEN [onGround |-> FALSE, collidedPlanet |-> null, surfaceNormal |-> <<>>,
              position |-> playerPosition, velocity |-> playerVelocity,
              tangential |-> playerTangential]
        ELSE
        LET planetPos == planets[hit].position
            distanceToSurface == Abs(playerPosition - planetPos) - planets[hit].radius
            normal == normalize(playerPosition - planetPos)
            correctionDistance == groundCollisionRadius - distanceToSurface
        IN  [onGround |-> TRUE, collidedPlanet |-> hit, surfaceNormal |-> <<normal>>,
             position |-> playerPosition + normal * correctionDistance,
             velocity |-> collisionVelocity(playerVelocity, normal),
             tangential |-> collisionTangential(playerTangential, playerVelocity,
                                                normal)]),
        firstCollision(playerPosition, planets, 1))

-----------------------------------------------------------------------------
(* Physics.calculateUpDirection, getGravityForce, updateStamina, calculateMoveDirection *)

calculateUpDirection(playerPosition, planets) ==
    LET nearest == getNearestPlanet(playerPosition, planets)
    IN  IF nearest.planet = null \/ nearest.distance > alignmentDistance
        THEN 1                                  \* global up (0,1,0)
        ELSE normalize(playerPosition - planets[nearest.planet].position)

\* One body's contribution (lines 168-190), toward the body.  mass is the body's mass
\* proxy in 1/100: the radius, or 50 for the sun.  G * mass / clampedDistance^2 with
\* G = 100 is 4000000 * mass / (2 * clampedDistance)^2 in model units; the division is
\* done in two steps to stay within the integer range.
\* mass is the third argument of getGravityForce, a plain factor (default 1).
\* Line 166 skips a body without geometry or whose radius is missing or 0.
bodyGravity(position, body, mass) ==
    LET distance == Abs(body.position - position)
        direction == normalize(body.position - position)
        bodyMass == IF body.isSun THEN 5000 ELSE body.radius
        twiceClamped == Max(2 * distance, body.radius)
        force == Quot(Quot(2000 * bodyMass * mass, twiceClamped) * 2000, twiceClamped)
        scaledForce == Min(force, gravityCap)
    IN  IF body.geometry # "sphere" \/ body.radius = 0 THEN 0
        ELSE IF distance <= 10 THEN 0
        ELSE direction * scaledForce

RECURSIVE gravitySum(_, _, _, _)
gravitySum(position, celestialBodies, mass, i) ==
    IF i > Len(celestialBodies) THEN 0
    ELSE bodyGravity(position, celestialBodies[i], mass)
         + gravitySum(position, celestialBodies, mass, i + 1)

getGravityForce(position, celestialBodies, mass) ==
    gravitySum(position, celestialBodies, mass, 1)

\* returns the player's stamina and isSprinting after the call
updateStaminaNoClamp(p, c, deltaTime) ==
    IF c.sprint /\ p.stamina > 0
    THEN [stamina |-> p.stamina - 25 * deltaTime, isSprinting |-> p.isSprinting]
    ELSE [stamina |-> p.stamina + 15 * deltaTime, isSprinting |-> p.isSprinting]

updateStamina(p, c, deltaTime) ==
    IF c.sprint /\ p.stamina > 0
    THEN [stamina |-> Max(p.stamina - 25 * deltaTime, 0), isSprinting |-> p.isSprinting]
    ELSE LET stamina == Min(p.stamina + 15 * deltaTime, p.maxStamina)
         IN  [stamina |-> stamina,
              isSprinting |-> IF stamina <= 0 THEN FALSE ELSE p.isSprinting]

\* forward is the camera's world direction; on the ground it is projected on the plane
\* normal to the camera's own up vector, which leaves it unchanged
calculateMoveDirection(c, cameraDirection, inSpace, onGround) ==
    (IF c.moveForward THEN cameraDirection ELSE 0)
    - (IF c.moveBackward THEN cameraDirection ELSE 0)

-----------------------------------------------------------------------------
(* Physics.updatePlayerPhysics *)

noclipSpeedNoSprint(c, phys) == phys.moveSpeed * 100

\* line 286: the flying speed, tripled while sprinting
noclipSpeed(c, phys) ==
    IF c.sprint THEN phys.moveSpeed * 100 * 3 ELSE phys.moveSpeed * 100

\* lines 274-308.  Returns the player after the step and the PhysicsResult.
noclipStep(p, c, deltaTime, phys, cameraDirection) ==
    LET moveDirection == calculateMoveDirection(c, cameraDirection, TRUE, FALSE)
        moved == IF Abs(moveDirection) > 0
                 THEN p.position
                      + Quot(normalize(moveDirection) * noclipSpeed(c, phys) * deltaTime, 100)
                 ELSE p.position
    IN  [player |-> [p EXCEPT !.position = moved, !.velocity = 0, !.tangential = 0,
                              !.onGround = FALSE],
         environment |-> [NoEnvironmentResult EXCEPT !.inSpace = TRUE,
                                                     !.atmosphereZone = "noclip"],
         collision |-> NoCollisionResult,
         resolved |-> [position |-> moved, velocity |-> 0, tangential |-> 0],
         upDirection |-> 1,
         gravityApplied |-> FALSE,
         lastZone |-> phys.lastZone, zoneSwitchDelay |-> phys.zoneSwitchDelay]

\* lines 322-350, in 1/100000
dragFor(environment, planets, inSpaceDrag) ==
    IF environment.inSpace THEN inSpaceDrag
    ELSE IF environment.inTransition
    THEN inSpaceDrag + Quot((inAtmosphereDrag - inSpaceDrag)
                              * (1000 - Max(environment.transitionFactor, 0)), 1000)
    ELSE IF ~environment.onGround
    THEN LET planetRadius == planets[environment.nearest.planet].radius
             normalizedAltitude == Min(1000, Quot(environment.nearest.distance * 4000,
                                                  planetRadius))
         IN  inSpaceDrag + Quot((inAtmosphereDrag - inSpaceDrag)
                                  * (10000 - 9 * normalizedAltitude), 10000)
    ELSE inAtmosphereDrag

dragFactorPerFrame(dragCoefficient, deltaTime) == 100000 - dragCoefficient

\* line 353: 1 - Math.min(dragCoefficient, 0.05 * deltaTime / 0.016), in 1/100000
dragFactor(dragCoefficient, deltaTime) ==
    100000 - Min(dragCoefficient, 3125 * deltaTime)

\* line 478: player.onGround at the end of a normal step is the collision's flag
finalOnGroundFromEnvironment(environment, collision) == environment.onGround

finalOnGround(environment, collision) == collision.onGround

\* lines 368-372: whether the sprint multiplier (1.5) goes into the speed factor
sprintBoost(p, c, environment) == c.sprint /\ p.stamina > 0 /\ ~environment.inSpace

\* lines 358-376: the velocity added by movement input
moveImpulse(p, c, environment, deltaTime, moveSpeed, cameraDirection) ==
    LET moveDirection == calculateMoveDirection(c, cameraDirection,
                                                ~environment.onGround, environment.onGround)
        blended == IF environment.inTransition
                   THEN 1000 - Quot(Max(environment.transitionFactor, 0), 2)
                   ELSE IF environment.inSpace THEN 500 ELSE 1000
        speedFactor == IF sprintBoost(p, c, environment)
                       THEN Quot(blended * 3, 2)
                       ELSE blended
    IN  IF Abs(moveDirection) > 0
        THEN normalize(moveDirection) * Quot(moveSpeed * deltaTime * speedFactor, 100000)
        ELSE 0

\* lines 378-413
gravityFor(position, environment, planets, celestialBodies, deltaTime, gravity) ==
    LET dirGravity ==
            IF environment.nearest.planet # null
            THEN normalize(planets[environment.nearest.planet].position - position)
                 * Quot(gravity * deltaTime, 100)
            ELSE -Quot(gravity * deltaTime, 100)
        orbitalGravity == Quot(getGravityForce(position, celestialBodies, 1) * deltaTime, 100)
    IN  IF environment.inSpace /\ ~environment.inTransition THEN orbitalGravity
        ELSE IF environment.inTransition
        THEN Quot(orbitalGravity * Max(environment.transitionFactor, 0), 1000)
             + Quot(dirGravity * (1000 - Max(environment.transitionFactor, 0)), 1000)
        ELSE dirGravity

\* lines 415-418: gravity is added unless the classifier says onGround
gravityIsApplied(environment) == ~environment.onGround

\* lines 420-440 and 442-464: thrust direction, force and fuel drain of one thruster
thrusterDirection(position, environment, planets, cameraDirection) ==
    IF environment.nearest.planet # null /\ environment.nearest.distance < 50000
    THEN calculateUpDirection(position, planets)
    ELSE cameraDirection

drainFuelNoClamp(fuel, amount) == fuel - amount

drainFuel(fuel, amount) == IF fuel - amount < 0 THEN 0 ELSE fuel - amount

\* lines 480-496: what is left of a velocity component parallel to the ground
groundFrictionNone(tangentialComponent) == tangentialComponent

groundFriction(tangentialComponent) == Quot(tangentialComponent * 9, 10)

\* lines 310-508.  resolved is the position and velocity as handlePlanetCollisions
\* left them (kept for the properties).
normalStep(p0, c, deltaTime, planets, sun, phys, cameraDirection) ==
    Let(LAMBDA environment :
    (LET celestialBodies == IF sun = <<>> THEN planets ELSE planets \o sun
        upDirection == calculateUpDirection(p0.position, planets)
        dragCoefficient == dragFor(environment, planets, phys.inSpaceDrag)
        v1 == Quot(p0.velocity * dragFactor(dragCoefficient, deltaTime), 100000)
        t1 == Quot(p0.tangential * dragFactor(dragCoefficient, deltaTime), 100000)
        v2 == v1 + moveImpulse(p0, c, environment, deltaTime, phys.moveSpeed, cameraDirection)
        gravityVector == gravityFor(p0.position, environment, planets, celestialBodies,
                                    deltaTime, phys.gravity)
        v3 == IF gravityIsApplied(environment) THEN v2 + gravityVector ELSE v2
        \* jetpack
        jet == c.jetpack /\ p0.fuel > 0
        thrust == thrusterDirection(p0.position, environment, planets, cameraDirection)
        v4 == IF jet THEN v3 + thrust * Quot(phys.jetpackForce * deltaTime, 100) ELSE v3
        fuel1 == IF jet THEN drainFuel(p0.fuel, 20 * deltaTime) ELSE p0.fuel
        \* down thrusters
        down == c.downThrusters /\ fuel1 > 0
        v5 == IF down THEN v4 - thrust * Quot(phys.jetpackForce * 8 * deltaTime, 1000) ELSE v4
        fuel2 == IF down THEN drainFuel(fuel1, 15 * deltaTime) ELSE fuel1
    IN
    \* collision before the position update
    Let(LAMBDA col :
    (LET position == col.position + Quot(col.velocity * deltaTime, 100)
        lateral == p0.lateral + Quot(col.tangential * deltaTime, 100)
        \* friction on the ground: only the tangential part survives, times 0.9;
        \* along the axis that part is zero unless the normal is the zero vector
        v6 == IF col.onGround
              THEN LET normal == col.surfaceNormal[1]
                       tangential == col.velocity - normal * (col.velocity * normal)
                   IN  groundFriction(tangential)
              ELSE col.velocity
        t6 == IF col.onGround THEN groundFriction(col.tangential) ELSE col.tangential
    IN  [player |-> [p0 EXCEPT !.position = position, !.velocity = v6,
                               !.lateral = lateral, !.tangential = t6,
                               !.onGround = finalOnGround(environment, col),
                               !.fuel = fuel2],
         environment |-> [k \in DOMAIN NoEnvironmentResult |-> environment[k]],
         collision |-> [k \in DOMAIN NoCollisionResult |-> col[k]],
         resolved |-> [position |-> col.position, velocity |-> col.velocity,
                       tangential |-> col.tangential],
         upDirection |-> upDirection,
         gravityApplied |-> gravityIsApplied(environment),
         lastZone |-> environment.lastZone,
         zoneSwitchDelay |-> environment.zoneSwitchDelay]),
    handlePlanetCollisions(p0.position, v5, t1, planets, collisionRadius))),
    checkPlayerEnvironment(p0.position, planets, phys.lastZone, phys.zoneSwitchDelay))

updatePlayerPhysics(p, c, deltaTime, planets, sun, phys, cameraDirection, noclip) ==
    LET st == updateStamina(p, c, deltaTime)
        p0 == [p EXCEPT !.stamina = st.stamina, !.isSprinting = st.isSprinting]
    IN  IF noclip
        THEN noclipStep(p0, c, deltaTime, phys, cameraDirection)
        ELSE normalStep(p0, c, deltaTime, planets, sun, phys, cameraDirection)

-----------------------------------------------------------------------------
(* State after construction (Game, PlayerController, Physics, World constructors) *)

\* PlanetFactory.createPlanet: a mesh with a SphereGeometry
Planet(position, radius, index) ==
    [position |-> position, radius |-> radius, index |-> index, isSun |-> FALSE,
     geometry |-> "sphere"]

\* CelestialFactory.createSun: radius 50, userData.isSun
Sun(position) ==
    [position |-> position, radius |-> 5000, index |-> -1, isSun |-> TRUE,
     geometry |-> "sphere"]

InitPlayer ==
    [position |-> 0, velocity |-> 0, onGround |-> FALSE,
     fuel |-> 10000, maxFuel |-> 10000,
     stamina |-> 10000, maxStamina |-> 10000, isSprinting |-> FALSE,
     lastPlanetVisited |-> 0, tangential |-> 0, lateral |-> 0]

\* gravityApplied: whether the step added gravity to the velocity; player: the player
\* when updatePlayerPhysics returned, fuel: its fuel (all kept for the properties)
NoResult == [call |-> "none", environment |-> NoEnvironmentResult,
             collision |-> NoCollisionResult, upDirection |-> 1,
             gravityApplied |-> FALSE, fuel |-> 0, player |-> InitPlayer,
             resolved |-> [position |-> 0, velocity |-> 0, tangential |-> 0]]

InitPhysics ==
    [gravity |-> 980, jumpForce |-> 1000, moveSpeed |-> 500, jetpackForce |-> 2000,
     inSpaceDrag |-> 100, lastZone |-> "null", zoneSwitchDelay |-> 0]

InitControls ==
    [moveForward |-> FALSE, moveBackward |-> FALSE, jump |-> FALSE,
     jetpack |-> FALSE, sprint |-> FALSE, downThrusters |-> FALSE]

InitGameState ==
    [discoveryPoints |-> 0, planetDiscovered |-> <<TRUE, FALSE, FALSE, FALSE, FALSE>>,
     inSpace |-> FALSE, noclip |-> FALSE, nearInteractable |-> FALSE,
     currentAtmosphereZone |-> "null"]

\* index.html: the upgrade menu starts hidden
InitUI == [display |-> "none", planetIndex |-> 0, discoveryPoints |-> 0]

\* sun is <<>> for null and <<body>> otherwise
InitWorld(planets) ==
    [planets |-> planets, sun |-> <<>>,
     unlocked |-> <<TRUE, FALSE, FALSE, FALSE, FALSE>>, jetpackRecharge |-> 50]

NoPre == [position |-> 0, velocity |-> 0, tangential |-> 0, fuel |-> 0, maxFuel |-> 0, stamina |-> 0,
          isSprinting |-> FALSE, onGround |-> FALSE, lastZone |-> "null",
          zoneSwitchDelay |-> 0, deltaTime |-> 0, noclip |-> FALSE,
          controls |-> InitControls, moveSpeed |-> 0, previous |-> NoCollisionResult]

NoHist == [zones |-> <<>>, proposed |-> <<>>]

-----------------------------------------------------------------------------
(* SpecEnv: checkPlayerEnvironment called tick after tick on arbitrary positions *)

\* the planet lists offered to checkPlayerEnvironment
EnvPlanetLists ==
    { <<>>,
      <<Planet(0, 800, 0)>>,
      <<Planet(0, 800, 0), Planet(2400, 400, 1)>> }

\* the positions offered: from the surface of the planet at 0 upward
EnvPositions == {800 + k * 100 : k \in 0 .. MaxDistSteps}

InitEnv ==
    /\ \E planets \in EnvPlanetLists : world = InitWorld(planets)
    /\ player = InitPlayer
    /\ physics = InitPhysics
    /\ controls = InitControls
    /\ gameState = InitGameState
    /\ camera = 1
    /\ ui = InitUI
    /\ result = NoResult
    /\ pre = NoPre
    /\ hist = NoHist
    /\ ticks = 0
    /\ inputs = 0

\* one call, on the world's planet list
CheckEnvironment(playerPosition) ==
    \E environment \in {checkPlayerEnvironment(playerPosition, world.planets,
                                               physics.lastZone, physics.zoneSwitchDelay)} :
        /\ player' = [player EXCEPT !.position = playerPosition]
        /\ physics' = [physics EXCEPT !.lastZone = environment.lastZone,
                                      !.zoneSwitchDelay = environment.zoneSwitchDelay]
        /\ result' = [NoResult EXCEPT !.call = "checkPlayerEnvironment",
                                      !.environment = environment]
        /\ pre' = [NoPre EXCEPT !.position = playerPosition,
                                !.lastZone = physics.lastZone,
                                !.zoneSwitchDelay = physics.zoneSwitchDelay]
        /\ hist' = [zones |-> Last(Append(hist.zones, environment.atmosphereZone), 5),
                    proposed |-> Last(Append(hist.proposed, environment.proposed), 3)]
        /\ UNCHANGED <<world, controls, gameState, camera, ui, ticks, inputs>>

NextEnv == \E playerPosition \in EnvPositions : CheckEnvironment(playerPosition)

SpecEnv == InitEnv /\ [][NextEnv]_vars

-----------------------------------------------------------------------------
(* SpecColl: handlePlanetCollisions applied, and applied again to its own output *)

\* two planets whose surfaces are 0.6 apart (so both can be within the contact radius),
\* in both list orders, a single planet, and two planets of different size
CollPlanetLists ==
    { <<Planet(0, 400, 0)>>,
      <<Planet(0, 400, 0), Planet(860, 400, 1)>>,
      <<Planet(860, 400, 0), Planet(0, 400, 1)>>,
      <<Planet(0, 400, 0), Planet(1260, 800, 1)>> }

CollPositions == { k * 10 : k \in -45 .. 50 }

CollVelocities == { -300, -25, 0, 150 }

\* the velocity component across the axis
CollTangentials == { 0, 250 }

InitColl ==
    /\ \E planets \in CollPlanetLists : world = InitWorld(planets)
    /\ \E position \in CollPositions, velocity \in CollVelocities,
          tangential \in CollTangentials :
           player = [InitPlayer EXCEPT !.position = position, !.velocity = velocity,
                                       !.tangential = tangential]
    /\ physics = InitPhysics
    /\ controls = InitControls
    /\ gameState = InitGameState
    /\ camera = 1
    /\ ui = InitUI
    /\ result = NoResult
    /\ pre = NoPre
    /\ hist = NoHist
    /\ ticks = 0
    /\ inputs = 0

ResolveCollision ==
    /\ ticks < MaxCalls
    /\ \E c \in {handlePlanetCollisions(player.position, player.velocity,
                                        player.tangential, world.planets,
                                        collisionRadius)} :
           /\ player' = [player EXCEPT !.position = c.position, !.velocity = c.velocity,
                                       !.tangential = c.tangential]
           /\ result' = [NoResult EXCEPT
                            !.call = "handlePlanetCollisions",
                            !.collision = [onGround |-> c.onGround,
                                           collidedPlanet |-> c.collidedPlanet,
                                           surfaceNormal |-> c.surfaceNormal]]
           \* pre.previous remembers what the previous call returned
           /\ pre' = [NoPre EXCEPT !.position = player.position,
                                   !.velocity = player.velocity,
                                   !.tangential = player.tangential,
                                   !.previous = result.collision]
    /\ ticks' = ticks + 1
    /\ UNCHANGED inputs
    /\ UNCHANGED <<world, physics, controls, gameState, camera, ui, hist>>

NextColl == ResolveCollision

SpecColl == InitColl /\ [][NextColl]_vars

-----------------------------------------------------------------------------
(* Game: key handlers and the per-frame update (Spec) *)

\* Game.jump
jump(p, planets, jumpForce) ==
    IF p.onGround
    THEN [p EXCEPT !.velocity = p.velocity + calculateUpDirection(p.position, planets) * jumpForce,
                   !.onGround = FALSE]
    ELSE p

\* Game.handleKeyDown, line 153: a Space key-down calls jump() when the key was not
\* already down and the avatar is on the ground
jumpOnRepeat(c, p) == p.onGround

jumpOnPress(c, p) == ~c.jump /\ p.onGround

\* Game.handleKeyDown, for the keys that reach the physics on the axis
handleKeyDown(code) ==
    /\ CASE code = "KeyW" ->
              /\ controls' = [controls EXCEPT !.moveForward = TRUE]
              /\ UNCHANGED <<player, gameState>>
         [] code = "KeyS" ->
              /\ controls' = [controls EXCEPT !.moveBackward = TRUE]
              /\ UNCHANGED <<player, gameState>>
         [] code = "ShiftLeft" ->
              /\ IF player.onGround
                 THEN /\ controls' = [controls EXCEPT !.sprint = TRUE]
                      /\ player' = [player EXCEPT !.isSprinting = TRUE]
                 ELSE /\ controls' = [controls EXCEPT !.downThrusters = TRUE]
                      /\ UNCHANGED player
              /\ UNCHANGED gameState
         [] code = "Space" ->
              /\ player' = IF jumpOnPress(controls, player)
                           THEN jump(player, world.planets, physics.jumpForce)
                           ELSE player
              /\ controls' = [controls EXCEPT !.jump = TRUE, !.jetpack = TRUE]
              /\ UNCHANGED gameState
         [] code = "KeyV" ->
              /\ gameState' = [gameState EXCEPT !.noclip = ~gameState.noclip]
              /\ UNCHANGED <<player, controls>>
    /\ UNCHANGED <<world, physics, camera, ui, result, pre, hist, ticks>>

\* Game.handleKeyUp
handleKeyUp(code) ==
    /\ CASE code = "KeyW" ->
              /\ controls' = [controls EXCEPT !.moveForward = FALSE]
              /\ UNCHANGED player
         [] code = "KeyS" ->
              /\ controls' = [controls EXCEPT !.moveBackward = FALSE]
              /\ UNCHANGED player
         [] code = "ShiftLeft" ->
              /\ controls' = [controls EXCEPT !.sprint = FALSE, !.downThrusters = FALSE]
              /\ player' = [player EXCEPT !.isSprinting = FALSE]
         [] code = "Space" ->
              /\ controls' = [controls EXCEPT !.jump = FALSE, !.jetpack = FALSE]
              /\ UNCHANGED player
    /\ UNCHANGED <<world, physics, gameState, camera, ui, result, pre, hist, ticks>>

\* lines 510-514 of Game.updatePlayer: the fuel after the recharge
rechargeFuelNoClamp(p, jetpack, inSpace, jetpackRecharge, deltaTime) ==
    IF ~jetpack /\ ~inSpace
    THEN p.fuel + Quot(jetpackRecharge * deltaTime, 100)
    ELSE p.fuel

rechargeFuel(p, jetpack, inSpace, jetpackRecharge, deltaTime) ==
    IF ~jetpack /\ ~inSpace
    THEN Min(p.fuel + Quot(jetpackRecharge * deltaTime, 100), p.maxFuel)
    ELSE p.fuel

\* Game.checkPlanetDiscovery: returns discoveryPoints, planetDiscovered, lastPlanetVisited
checkPlanetDiscovery(gs, w, lastPlanetVisited, environment, collision) ==
    LET landed == collision.collidedPlanet # null
        index == w.planets[collision.collidedPlanet].index
        award == landed /\ ~gs.planetDiscovered[index + 1] /\ w.unlocked[index + 1]
        discovered == IF award THEN [gs.planetDiscovered EXCEPT ![index + 1] = TRUE]
                      ELSE gs.planetDiscovered
        points1 == IF award THEN gs.discoveryPoints + 50 * (index + 1)
                   ELSE gs.discoveryPoints
        visited == IF landed THEN index ELSE lastPlanetVisited
        nearestData == environment.nearest
        near == /\ nearestData.planet # null
                /\ w.unlocked[w.planets[nearestData.planet].index + 1]
                /\ nearestData.distance < 5000
                /\ visited # w.planets[nearestData.planet].index
    IN  [discoveryPoints |-> IF near THEN points1 + 10 ELSE points1,
         planetDiscovered |-> discovered,
         lastPlanetVisited |-> visited]

\* World.isUpgradeStationNearby: the index of the first unlocked planet whose station is
\* within range, -1 if none.  A station stands on the surface, here at the pole on the axis.
RECURSIVE stationScan(_, _, _, _)
stationScan(position, w, range, i) ==
    IF i > Len(w.planets) THEN -1
    ELSE IF w.unlocked[w.planets[i].index + 1]
            /\ Abs(position - (w.planets[i].position + w.planets[i].radius)) < range
         THEN w.planets[i].index
         ELSE stationScan(position, w, range, i + 1)

isUpgradeStationNearby(position, w, range) == stationScan(position, w, range, 1)

\* Game.animate -> Game.updatePlayer with this frame's deltaTime.  The orientation
\* update is modelled apart (alignWithSurface, SpecAlign); the camera and the HUD are
\* not part of this model.
updatePlayer(deltaTime) ==
    \E r \in {updatePlayerPhysics(player, controls, deltaTime, world.planets, world.sun,
                                  physics, camera, gameState.noclip)} :
    LET fuel == rechargeFuel(r.player, controls.jetpack, r.environment.inSpace,
                             world.jetpackRecharge, deltaTime)
        d == checkPlanetDiscovery(gameState, world, r.player.lastPlanetVisited,
                                  r.environment, r.collision)
    IN  /\ player' = [r.player EXCEPT !.fuel = fuel,
                                      !.lastPlanetVisited = d.lastPlanetVisited]
        /\ physics' = [physics EXCEPT !.lastZone = r.lastZone,
                                      !.zoneSwitchDelay = r.zoneSwitchDelay]
        /\ gameState' = [gameState EXCEPT
                            !.inSpace = r.environment.inSpace,
                            !.currentAtmosphereZone = r.environment.atmosphereZone,
                            !.discoveryPoints = d.discoveryPoints,
                            !.planetDiscovered = d.planetDiscovered,
                            \* Game.checkForInteractables, interactionDistance = 20
                            !.nearInteractable =
                                isUpgradeStationNearby(r.player.position, world, 2000) >= 0]
        /\ result' = [call |-> "updatePlayerPhysics", environment |-> r.environment,
                      collision |-> r.collision, upDirection |-> r.upDirection,
                      gravityApplied |-> r.gravityApplied, fuel |-> r.player.fuel,
                      player |-> r.player, resolved |-> r.resolved]
        /\ pre' = [NoPre EXCEPT !.position = player.position,
                                !.velocity = player.velocity,
                                !.tangential = player.tangential,
                                !.fuel = player.fuel,
                                !.maxFuel = player.maxFuel,
                                !.stamina = player.stamina,
                                !.isSprinting = player.isSprinting,
                                !.onGround = player.onGround,
                                !.lastZone = physics.lastZone,
                                !.zoneSwitchDelay = physics.zoneSwitchDelay,
                                !.deltaTime = deltaTime,
                                !.noclip = gameState.noclip,
                                !.controls = controls,
                                !.moveSpeed = physics.moveSpeed]

\* Game.showUpgrades: the upgrades offered by the station of each planet
Upgrade(name, cost) == [name |-> name, cost |-> cost]

upgrades ==
    << {Upgrade("Basic Scanner", 50), Upgrade("Improved Jetpack", 100)},
       {Upgrade("Improved Thrusters", 200), Upgrade("Fuel Efficiency", 150)},
       {Upgrade("Enhanced Fuel Capacity", 300), Upgrade("Advanced Propulsion", 350)},
       {Upgrade("Advanced Scanner", 500), Upgrade("Gravitational Stabilizers", 450)},
       {Upgrade("Warp Drive", 1000), Upgrade("Anti-Gravity Field", 800)} >>

\* World.unlockPlanet
unlockPlanet(unlocked, index) ==
    IF index >= 0 /\ index < Len(unlocked)
    THEN [unlocked EXCEPT ![index + 1] = TRUE]
    ELSE unlocked

\* Game.tryInteract (KeyE): opens the station's menu, which shows the current points
tryInteract ==
    LET stationPlanet == isUpgradeStationNearby(player.position, world, 2000)
        first == stationPlanet > 0 /\ ~gameState.planetDiscovered[stationPlanet + 1]
    IN  /\ gameState.nearInteractable
        /\ stationPlanet >= 0
        /\ ui' = [display |-> "block", planetIndex |-> stationPlanet,
                  discoveryPoints |-> gameState.discoveryPoints]
        /\ gameState' = IF first
                        THEN [gameState EXCEPT
                                 !.planetDiscovered[stationPlanet + 1] = TRUE,
                                 !.discoveryPoints = @ + 100 * stationPlanet]
                        ELSE gameState
        /\ world' = IF first
                    THEN [world EXCEPT !.unlocked =
                             unlockPlanet(@, (stationPlanet + 1) % Len(world.planets))]
                    ELSE world
        /\ UNCHANGED <<player, physics, controls, camera, result, pre, hist, ticks>>

\* UI.showUpgradeMenu: an option gets its click listener only if the points handed to
\* the menu cover the upgrade's cost
purchasableAlways(discoveryPoints, upgrade) == TRUE

purchasable(discoveryPoints, upgrade) == discoveryPoints >= upgrade.cost

\* Game.purchaseUpgrade, reached through the click listener that UI.showUpgradeMenu
\* installs on an option only if the points shown cover its cost; the click hides the menu
purchaseUpgrade(upgrade) ==
    /\ ui.display = "block"
    /\ upgrade \in upgrades[ui.planetIndex + 1]
    /\ purchasable(ui.discoveryPoints, upgrade)
    /\ gameState' = [gameState EXCEPT !.discoveryPoints = @ - upgrade.cost]
    /\ world' = [world EXCEPT
                    !.unlocked = IF upgrade.name = "Basic Scanner" THEN unlockPlanet(@, 1)
                                 ELSE IF upgrade.name = "Advanced Scanner"
                                 THEN unlockPlanet(@, 3)
                                 ELSE @,
                    !.jetpackRecharge = IF upgrade.name = "Fuel Efficiency"
                                        THEN Quot(@ * 5, 4) ELSE @]
    /\ physics' = [physics EXCEPT
                      !.jetpackForce = IF upgrade.name = "Improved Jetpack"
                                       THEN Quot(@ * 12, 10) ELSE @,
                      !.moveSpeed = IF upgrade.name = "Improved Thrusters"
                                    THEN Quot(@ * 13, 10) ELSE @,
                      !.inSpaceDrag = IF upgrade.name = "Advanced Propulsion"
                                      THEN Quot(@ * 7, 10) ELSE @,
                      !.gravity = IF upgrade.name = "Gravitational Stabilizers"
                                  THEN Quot(@ * 7, 10)
                                  ELSE IF upgrade.name = "Anti-Gravity Field"
                                  THEN Quot(@, 10)
                                  ELSE @]
    /\ player' = IF upgrade.name = "Enhanced Fuel Capacity"
                 THEN [player EXCEPT !.maxFuel = Quot(player.maxFuel * 3, 2),
                                     !.fuel = Quot(player.maxFuel * 3, 2)]
                 ELSE player
    /\ ui' = InitUI
    /\ UNCHANGED <<controls, camera, result, pre, hist, ticks>>

\* the menu's Close button.  What a hidden menu holds cannot be clicked and is rebuilt
\* by the next showUpgradeMenu, so hiding is modelled as emptying it.
closeUpgradeMenu ==
    /\ ui.display = "block"
    /\ ui' = InitUI
    /\ UNCHANGED <<world, player, physics, controls, gameState, camera, result, pre, hist, ticks>>

\* Game.animate caps the frame time at 0.1 s
DeltaTimes == {0, 10}

KeyDownCodes == {"KeyW", "KeyS", "ShiftLeft", "Space", "KeyV"}

KeyUpCodes == {"KeyW", "KeyS", "ShiftLeft", "Space"}

\* States the game can be in, reached by earlier frames.  Above the planet at 0 (radius
\* 4): resting at the contact radius, sinking into the surface, hovering between the
\* contact radius and the ground threshold, falling through the atmosphere, in the
\* transition band and in deep space, two of them nearly out of fuel and the first with
\* little stamina left.  And later in the
\* game: standing at the station of the third planet with 300 points.
Scenarios ==
    { [position |-> 450,  velocity |-> 0,    onGround |-> TRUE,  fuel |-> 10000, stamina |-> 250,
       lastZone |-> "surface",          zoneSwitchDelay |-> 0, planets |-> 1, points |-> 0],
      [position |-> 430,  velocity |-> -200, onGround |-> FALSE, fuel |-> 10000, stamina |-> 10000,
       lastZone |-> "low-atmosphere",   zoneSwitchDelay |-> 2, planets |-> 1, points |-> 0],
      [position |-> 460,  velocity |-> 0,    onGround |-> FALSE, fuel |-> 100, stamina |-> 10000,
       lastZone |-> "low-atmosphere",   zoneSwitchDelay |-> 0, planets |-> 1, points |-> 0],
      [position |-> 600,  velocity |-> -200, onGround |-> FALSE, fuel |-> 10000, stamina |-> 10000,
       lastZone |-> "atmosphere",       zoneSwitchDelay |-> 0, planets |-> 1, points |-> 0],
      [position |-> 950,  velocity |-> 0,    onGround |-> FALSE, fuel |-> 100, stamina |-> 10000,
       lastZone |-> "upper-atmosphere", zoneSwitchDelay |-> 1, planets |-> 1, points |-> 0],
      [position |-> 1100, velocity |-> 150,  onGround |-> FALSE, fuel |-> 10000, stamina |-> 10000,
       lastZone |-> "deep-space",       zoneSwitchDelay |-> 0, planets |-> 1, points |-> 0],
      [position |-> -1950, velocity |-> 0,   onGround |-> TRUE,  fuel |-> 100, stamina |-> 10000,
       lastZone |-> "surface",          zoneSwitchDelay |-> 0, planets |-> 3, points |-> 300] }

\* three planets on the axis and the sun far below them
SpecPlanets == <<Planet(0, 400, 0), Planet(2400, 400, 1), Planet(-2400, 400, 2)>>

Init ==
    /\ \E s \in Scenarios :
           /\ world = [InitWorld(SpecPlanets) EXCEPT
                          !.sun = <<Sun(-20000)>>,
                          !.unlocked = [i \in 1 .. 5 |-> i <= s.planets]]
           /\ player = [InitPlayer EXCEPT !.position = s.position, !.velocity = s.velocity,
                                          !.onGround = s.onGround, !.fuel = s.fuel,
                                          !.stamina = s.stamina,
                                          !.lastPlanetVisited = s.planets - 1]
           /\ physics = [InitPhysics EXCEPT !.lastZone = s.lastZone,
                                            !.zoneSwitchDelay = s.zoneSwitchDelay]
           /\ gameState = [InitGameState EXCEPT
                              !.discoveryPoints = s.points,
                              !.planetDiscovered = [i \in 1 .. 5 |-> i <= s.planets],
                              !.nearInteractable =
                                  isUpgradeStationNearby(s.position, world, 2000) >= 0]
    /\ controls = InitControls
    /\ camera = 1
    /\ ui = InitUI
    /\ result = NoResult
    /\ pre = NoPre
    /\ hist = NoHist
    /\ ticks = 0
    /\ inputs = 0

Tick ==
    /\ ticks < MaxTicks
    /\ \E deltaTime \in DeltaTimes : updatePlayer(deltaTime)
    /\ ticks' = ticks + 1
    /\ UNCHANGED inputs
    /\ UNCHANGED <<world, controls, camera, ui, hist>>

\* an input event: a key press, a key release or a click on the menu
Input(handled) ==
    /\ inputs < MaxInputs
    /\ handled
    /\ inputs' = inputs + 1

KeyDown == \E code \in KeyDownCodes : Input(handleKeyDown(code))

KeyUp == \E code \in KeyUpCodes : Input(handleKeyUp(code))

Interact == Input(tryInteract)

Purchase == \E planetIndex \in 1 .. Len(upgrades) :
                \E upgrade \in upgrades[planetIndex] : Input(purchaseUpgrade(upgrade))

CloseMenu == Input(closeUpgradeMenu)

Next == Tick \/ KeyDown \/ KeyUp \/ Interact \/ Purchase \/ CloseMenu

Spec == Init /\ [][Next]_vars

-----------------------------------------------------------------------------
(* SpecDrop: the straight drop.  One stationary planet, the avatar at rest at centre *)
(* distance 2 * radius, noclip off, no key pressed, frames of 0.05 s or 0.1 s.        *)

DropRadii == {200, 400}

DropDeltaTimes == {5, 10}

InitDrop ==
    /\ \E radius \in DropRadii :
           /\ world = InitWorld(<<Planet(0, radius, 0)>>)
           /\ player = [InitPlayer EXCEPT !.position = 2 * radius]
    /\ physics = InitPhysics
    /\ controls = InitControls
    /\ gameState = InitGameState
    /\ camera = 1
    /\ ui = InitUI
    /\ result = NoResult
    /\ pre = NoPre
    /\ hist = NoHist
    /\ ticks = 0
    /\ inputs = 0

\* frames until the first landing
Landed == result.call = "updatePlayerPhysics" /\ result.collision.onGround

DropTick ==
    /\ ticks < MaxDropTicks
    /\ ~Landed
    /\ \E deltaTime \in DropDeltaTimes : updatePlayer(deltaTime)
    /\ ticks' = ticks + 1
    /\ UNCHANGED inputs
    /\ UNCHANGED <<world, controls, camera, ui, hist>>

NextDrop == DropTick

SpecDrop == InitDrop /\ [][NextDrop]_vars

-----------------------------------------------------------------------------
(* SpecCore: getNearestPlanet, getGravityForce and handlePlanetCollisions called on  *)
(* lists of bodies some of which have no radius                                      *)

\* a mesh whose geometry is not a sphere: its radius field is never a number
Body(position, geometry, index) ==
    [position |-> position, radius |-> undefined, index |-> index, isSun |-> FALSE,
     geometry |-> geometry]

CoreBodies ==
    { Planet(0, 400, 0), Planet(2400, 400, 1), Sun(-6000),
      Body(1000, "box", 2), Body(1000, "plain", 3), Body(300, "none", 4) }

CoreBodyLists == UNION { [1 .. n -> CoreBodies] : n \in 0 .. MaxBodies }

CorePositions == {-900, -410, 0, 5, 300, 420, 449, 450, 700, 1000, 1990, 2400}

CoreVelocities == {-300, 150}

\* the mass argument of getGravityForce; callers in the program leave it at 1
CoreMasses == {-4, 0, 1, 4}

InitCore ==
    /\ \E planets \in CoreBodyLists : world = InitWorld(planets)
    /\ \E position \in CorePositions, velocity \in CoreVelocities :
           player = [InitPlayer EXCEPT !.position = position, !.velocity = velocity]
    /\ physics = InitPhysics
    /\ controls = InitControls
    /\ gameState = InitGameState
    /\ camera = 1
    /\ ui = InitUI
    /\ result = [call |-> "none", threw |-> FALSE, value |-> 0, mass |-> 0]
    /\ pre = NoPre
    /\ hist = NoHist
    /\ ticks = 0
    /\ inputs = 0

\* a call records whether it raised and, if it did not, what it returned
GetNearestPlanet ==
    /\ result.call = "none"
    /\ result' = [call |-> "getNearestPlanet",
                  threw |-> getNearestPlanetThrows(player.position, world.planets),
                  value |-> IF getNearestPlanetThrows(player.position, world.planets)
                            THEN [planet |-> null, distance |-> Infinity]
                            ELSE getNearestPlanet(player.position, world.planets),
                  mass |-> 0]
    /\ UNCHANGED <<world, player, physics, controls, gameState, camera, ui, pre, hist,
                   ticks, inputs>>

GetGravityForce ==
    /\ result.call = "none"
    /\ \E mass \in CoreMasses :
           result' = [call |-> "getGravityForce", threw |-> FALSE,
                      value |-> getGravityForce(player.position, world.planets, mass),
                      mass |-> mass]
    /\ UNCHANGED <<world, player, physics, controls, gameState, camera, ui, pre, hist,
                   ticks, inputs>>

\* the position and velocity arguments are the player's vectors, corrected in place
HandlePlanetCollisions ==
    /\ result.call = "none"
    /\ IF handlePlanetCollisionsThrows(player.position, world.planets)
       THEN /\ result' = [call |-> "handlePlanetCollisions", threw |-> TRUE,
                          value |-> NoCollisionResult, mass |-> 0]
            /\ UNCHANGED player
       ELSE \E c \in {handlePlanetCollisions(player.position, player.velocity,
                                              player.tangential, world.planets,
                                              collisionRadius)} :
                /\ result' = [call |-> "handlePlanetCollisions", threw |-> FALSE,
                              value |-> [k \in DOMAIN NoCollisionResult |-> c[k]],
                              mass |-> 0]
                /\ player' = [player EXCEPT !.position = c.position,
                                            !.velocity = c.velocity]
    /\ pre' = [NoPre EXCEPT !.position = player.position, !.velocity = player.velocity]
    /\ UNCHANGED <<world, physics, controls, gameState, camera, ui, hist, ticks, inputs>>

NextCore == GetNearestPlanet \/ GetGravityForce \/ HandlePlanetCollisions

SpecCore == InitCore /\ [][NextCore]_vars

-----------------------------------------------------------------------------
(* Properties of checkPlayerEnvironment (SpecEnv) *)

\* the zone returned by the last call differs from the one returned by the call before
ZoneChanged ==
    /\ Len(hist.zones) >= 2
    /\ hist.zones[Len(hist.zones)] # hist.zones[Len(hist.zones) - 1]

\* C1: a returned zone that differs from the previous tick's is accepted only after
\* that same zone was the proposed (pre-delay) zone on 3 consecutive ticks; on the
\* earlier ticks of the run the previous zone is returned and the counter incremented.
C1_SwitchAfterThreeSameProposals ==
    /\ ZoneChanged =>
          /\ Len(hist.proposed) = 3
          /\ \A i \in 1 .. 3 : hist.proposed[i] = hist.zones[Len(hist.zones)]
    /\ (result.call = "checkPlayerEnvironment"
        /\ result.environment.nearest.planet # null
        /\ pre.lastZone # "null"
        /\ result.environment.proposed # result.environment.atmosphereZone) =>
          /\ result.environment.atmosphereZone = pre.lastZone
          /\ physics.zoneSwitchDelay = pre.zoneSwitchDelay + 1

\* what the code does instead: a switch is accepted on the third consecutive call whose
\* proposal differs from the stored zone, whatever the three proposals were
C1_SwitchAfterThreeDiffering ==
    ZoneChanged =>
        /\ Len(hist.proposed) = 3
        /\ \A i \in 1 .. 3 : hist.proposed[i] # hist.zones[Len(hist.zones) - 1]
        /\ hist.proposed[3] = hist.zones[Len(hist.zones)]

\* C2: over consecutive calls on a non-empty planet list, two changes of the returned
\* zone are never fewer than 3 ticks apart (at most one change in any 3 consecutive ticks).
C2_ZoneChangesThreeApart ==
    \A i, j \in 2 .. Len(hist.zones) :
        (i < j /\ hist.zones[i] # hist.zones[i - 1] /\ hist.zones[j] # hist.zones[j - 1])
            => j - i >= 3

\* two changes exactly three ticks apart, the second one just returned
C2_Witness ==
    /\ Len(hist.zones) = 5
    /\ hist.zones[2] # hist.zones[1]
    /\ hist.zones[5] # hist.zones[4]

\* C10: with an empty planet list the call returns zone deep-space, transitionFactor 1
\* and onGround false, whatever the stored zone and counter.
C10_NoPlanetIsDeepSpace ==
    (result.call = "checkPlayerEnvironment" /\ world.planets = <<>>) =>
        /\ result.environment.atmosphereZone = "deep-space"
        /\ result.environment.transitionFactor = 1000
        /\ result.environment.onGround = FALSE

\* what does hold of that call
C10_NoPlanetZoneAndGround ==
    (result.call = "checkPlayerEnvironment" /\ world.planets = <<>>) =>
        /\ result.environment.atmosphereZone = "deep-space"
        /\ result.environment.inSpace
        /\ result.environment.onGround = FALSE
        /\ physics.lastZone = pre.lastZone
        /\ physics.zoneSwitchDelay = pre.zoneSwitchDelay

-----------------------------------------------------------------------------
(* Properties of handlePlanetCollisions (SpecColl) *)

SurfaceDistance(position, planet) == Abs(position - planet.position) - planet.radius

Collided == result.call = "handlePlanetCollisions" /\ result.collision.onGround

\* C3: after a reported collision the position is at least radius + groundRadius from
\* the collided planet's centre, groundRadius being the caller's argument (collisionRadius).
C3_NoPenetrationAtPassedRadius ==
    Collided =>
        SurfaceDistance(player.position, world.planets[result.collision.collidedPlanet])
            >= collisionRadius - 1

\* what the code guarantees: the contact radius is the local groundCollisionRadius,
\* and only for a position that is not the planet's centre
C3_NoPenetrationAtLocalRadius ==
    (Collided /\ result.collision.surfaceNormal # <<0>>) =>
        SurfaceDistance(player.position, world.planets[result.collision.collidedPlanet])
            = groundCollisionRadius

\* C4: a second call on the output of a call that reported a collision again reports
\* onGround with the same planet and moves the position by (near) zero.
C4_ResolveIdempotent ==
    (result.call = "handlePlanetCollisions" /\ ticks >= 2 /\ pre.previous.onGround) =>
        /\ result.collision.onGround
        /\ result.collision.collidedPlanet = pre.previous.collidedPlanet
        /\ Abs(player.position - pre.position) <= 1

\* C5: at most one collided planet per call, the first in list order whose surface
\* distance is below the contact radius; only that planet corrects the position.
PenetratedPlanets(position) ==
    { i \in 1 .. Len(world.planets) :
          SurfaceDistance(position, world.planets[i]) < groundCollisionRadius }

C5_FirstInListOrderWins ==
    result.call = "handlePlanetCollisions" =>
        LET hits == PenetratedPlanets(pre.position)
        IN  /\ result.collision.onGround = (hits # {})
            /\ hits = {} => /\ result.collision.collidedPlanet = null
                            /\ player.position = pre.position
                            /\ player.velocity = pre.velocity
            /\ hits # {} =>
                 LET first == CHOOSE i \in hits : \A j \in hits : i <= j
                     p == world.planets[first]
                 IN  /\ result.collision.collidedPlanet = first
                     /\ pre.position # p.position =>
                            /\ SurfaceDistance(player.position, p) = groundCollisionRadius
                            /\ normalize(player.position - p.position)
                                 = normalize(pre.position - p.position)

\* the first penetrated planet is reported although a later one is penetrated more deeply
C5_Witness ==
    /\ result.call = "handlePlanetCollisions"
    /\ result.collision.collidedPlanet = 1
    /\ 2 \in PenetratedPlanets(pre.position)
    /\ SurfaceDistance(pre.position, world.planets[2])
         < SurfaceDistance(pre.position, world.planets[1])

-----------------------------------------------------------------------------
(* Properties of the straight drop (SpecDrop) *)

\* the speed the avatar hit the surface with: the speed at the start of the landing frame
\* plus what that frame's gravity can add
ImpactSpeedBound == Abs(pre.velocity) + Quot(physics.gravity * pre.deltaTime, 100)

\* C7: the dropped avatar eventually reaches a frame that reports collision.onGround;
\* at that frame the speed is no larger than the impact speed and the position lies at
\* surface distance equal to the ground radius (the radius passed to the resolver).
C7_LandsAtGroundRadius ==
    Landed =>
        /\ Abs(player.velocity) <= ImpactSpeedBound
        /\ SurfaceDistance(player.position, world.planets[1]) = collisionRadius

\* the drop ends: a run stops only because it landed, never because it ran out of frames
C7_LandsWithinBound == ticks < MaxDropTicks \/ Landed

\* what the landing frame does guarantee
C7_LandsAtContactRadius ==
    Landed =>
        /\ Abs(player.velocity) <= ImpactSpeedBound
        /\ player.onGround
        /\ SurfaceDistance(player.position, world.planets[1]) = groundCollisionRadius

-----------------------------------------------------------------------------
(* Properties of a frame of the whole game (Spec) *)

\* the last frame ran the normal (non-noclip) branch of updatePlayerPhysics
NormalStepDone == result.call = "updatePlayerPhysics" /\ ~pre.noclip

\* the last frame ran the noclip branch
NoclipStepDone == result.call = "updatePlayerPhysics" /\ pre.noclip

\* C6: in a normal step gravity is left out of the velocity update only if the
\* collision resolver of that step reports onGround, and is added in every step
\* without surface contact.
C6_GravitySkippedOnlyOnContact ==
    NormalStepDone => (~result.gravityApplied <=> result.collision.onGround)

\* What the code does instead: gravity is left out exactly when the environment
\* classification of the step reports onGround (surface distance below the ground
\* threshold, or below it plus the hysteresis while the last zone is the surface).
C6_GravitySkippedOnClassifiedGround ==
    NormalStepDone => (~result.gravityApplied <=> result.environment.onGround)

\* fuel drained by a normal step with the jetpack on exceeds what is left
JetpackOverdrain ==
    /\ NormalStepDone
    /\ pre.controls.jetpack
    /\ pre.fuel > 0
    /\ 20 * pre.deltaTime > pre.fuel

\* the same for the down thrusters alone
DownThrusterOverdrain ==
    /\ NormalStepDone
    /\ ~pre.controls.jetpack
    /\ pre.controls.downThrusters
    /\ pre.fuel > 0
    /\ 15 * pre.deltaTime > pre.fuel

\* C8: after any sequence of frames, key events and upgrade purchases the fuel is
\* between 0 and maxFuel, both when updatePlayerPhysics returns and after the recharge
\* of Game.updatePlayer; a drain larger than the remaining fuel leaves exactly 0.
C8_FuelWithinBounds ==
    /\ 0 <= player.fuel /\ player.fuel <= player.maxFuel
    /\ 0 <= result.fuel /\ result.fuel <= pre.maxFuel
    /\ (JetpackOverdrain \/ DownThrusterOverdrain) => result.fuel = 0

\* a jetpack frame drained more fuel than was left, and the fuel capacity upgrade
\* has been bought since
C8_Witness ==
    /\ JetpackOverdrain
    /\ result.fuel = 0
    /\ player.maxFuel > pre.maxFuel
    /\ player.fuel = player.maxFuel

\* the movement input of the last frame on the axis: forward is the view direction
InputDirection ==
    (IF pre.controls.moveForward THEN camera ELSE 0)
    - (IF pre.controls.moveBackward THEN camera ELSE 0)

\* the distance a noclip frame covers: moveSpeed * 100, times 3 under sprint, times deltaTime
NoclipDistance ==
    Quot(pre.moveSpeed * 100 * (IF pre.controls.sprint THEN 3 ELSE 1) * pre.deltaTime, 100)

\* C9: a noclip step leaves the velocity zero and onGround false, leaves the fuel
\* unchanged, applies no gravity and no collision correction, and moves the position by
\* exactly speed * deltaTime along the normalized input direction, or not at all
\* without input.
C9_NoclipStep ==
    NoclipStepDone =>
        /\ player.velocity = 0
        /\ ~player.onGround
        /\ result.fuel = pre.fuel
        /\ ~result.gravityApplied
        /\ ~result.collision.onGround
        /\ result.collision.collidedPlanet = null
        /\ player.position = pre.position + normalize(InputDirection) * NoclipDistance

\* a noclip frame under sprint with forward input that moved an avatar which had a
\* velocity before
C9_Witness ==
    /\ NoclipStepDone
    /\ pre.controls.sprint
    /\ pre.controls.moveForward
    /\ ~pre.controls.moveBackward
    /\ pre.deltaTime > 0
    /\ pre.velocity # 0
    /\ player.position = pre.position + 3 * pre.moveSpeed * pre.deltaTime

-----------------------------------------------------------------------------
(* Properties of the core operations on bodies without a radius (SpecCore) *)

\* the bodies of the list that have a radius
WithRadius(planets) == SelectSeq(planets, radiusIsNumber)

\* the body a result names by its place in the list, <<>> for null
BodyAt(planets, i) == IF i = null THEN <<>> ELSE <<planets[i]>>

\* the last call returned what it returns on the list without the radius-less bodies
SameAsWithout ==
    LET planets == world.planets
        kept == WithRadius(planets)
    IN  CASE result.call = "getNearestPlanet" ->
                LET expected == getNearestPlanet(player.position, kept)
                IN  /\ BodyAt(planets, result.value.planet) = BodyAt(kept, expected.planet)
                    /\ result.value.distance = expected.distance
          [] result.call = "getGravityForce" ->
                result.value = getGravityForce(player.position, kept, result.mass)
          [] result.call = "handlePlanetCollisions" ->
                LET expected == handlePlanetCollisions(pre.position, pre.velocity, 0,
                                                       kept, collisionRadius)
                IN  /\ result.value.onGround = expected.onGround
                    /\ BodyAt(planets, result.value.collidedPlanet)
                           = BodyAt(kept, expected.collidedPlanet)
                    /\ result.value.surfaceNormal = expected.surfaceNormal
                    /\ player.position = expected.position
                    /\ player.velocity = expected.velocity
          [] OTHER -> TRUE

\* C11: a body whose geometry lacks a radius is treated as absent by every core
\* operation: the call raises no error and returns what it returns without that body.
C11_RadiuslessBodyIsAbsent ==
    result.call # "none" => (~result.threw /\ SameAsWithout)

\* What the code does: getGravityForce guards the read and always skips such a body;
\* the other two operations skip it when the read gives undefined (the comparisons
\* with NaN fail) and raise when the geometry has no parameters to read from.
C11_AbsentUnlessReadRaises ==
    result.call # "none" =>
        /\ result.call = "getGravityForce" => ~result.threw
        /\ result.threw => \E i \in 1 .. Len(world.planets) : radiusThrows(world.planets[i])
        /\ ~result.threw => SameAsWithout

-----------------------------------------------------------------------------
(* More properties of a frame of the whole game (Spec) *)

\* the last frame was a normal step with deltaTime = 0
ZeroStepDone == NormalStepDone /\ pre.deltaTime = 0

\* C12: a normal step with deltaTime = 0 leaves position, velocity, fuel and stamina as
\* they were, for every starting state, an avatar touching or inside a planet included.
C12_ZeroDeltaTimeNoOp ==
    ZeroStepDone =>
        /\ result.player.position = pre.position
        /\ result.player.velocity = pre.velocity
        /\ result.player.fuel = pre.fuel
        /\ result.player.stamina = pre.stamina

\* C12 as the code has it: with deltaTime = 0 fuel and stamina are as they were, and so
\* are position and velocity unless the collision resolver reports contact; its
\* correction of position and velocity and the ground friction do not scale with
\* deltaTime.
C12_ZeroDeltaTimeNoOpOffContact ==
    ZeroStepDone =>
        /\ result.player.fuel = pre.fuel
        /\ result.player.stamina = pre.stamina
        /\ ~result.collision.onGround =>
               /\ result.player.position = pre.position
               /\ result.player.velocity = pre.velocity

\* a zero-length frame of a moving avatar out of contact, with the jetpack on
C12_Witness ==
    /\ ZeroStepDone
    /\ ~result.collision.onGround
    /\ pre.velocity # 0
    /\ pre.controls.jetpack
    /\ pre.fuel > 0
    /\ result.player.velocity = pre.velocity

-----------------------------------------------------------------------------
(* Properties of getGravityForce (SpecCore) *)

\* every single body's contribution to the last getGravityForce call is within the cap,
\* and so is the sum, counted over the bodies with a radius
GravityWithinCap ==
    /\ \A i \in 1 .. Len(world.planets) :
           Abs(bodyGravity(player.position, world.planets[i], result.mass)) <= gravityCap
    /\ Abs(result.value) <= gravityCap * Len(WithRadius(world.planets))

C13_GravityCapNonNegativeMass ==
    (result.call = "getGravityForce" /\ result.mass >= 0) => GravityWithinCap

-----------------------------------------------------------------------------
(* The zone a frame publishes (Spec) *)

\* a frame has run: its EnvironmentResult is in result and its zone in gameState
StepDone == result.call = "updatePlayerPhysics"

\* the zone of the last frame's EnvironmentResult and its copy in gameState are in zones
PublishedZoneIn(zones) ==
    /\ result.environment.atmosphereZone \in zones
    /\ gameState.currentAtmosphereZone \in zones

\* C14: the zone published by every tick (EnvironmentResult.atmosphereZone, copied to
\* gameState.currentAtmosphereZone) is one of deep-space, upper-atmosphere, atmosphere,
\* surface.
C14_ZoneIsOneOfFour ==
    StepDone => PublishedZoneIn({"deep-space", "upper-atmosphere", "atmosphere", "surface"})

\* What the code publishes: the four zones, low-atmosphere between the ground band and
\* 0.3 of the atmosphere threshold, and noclip from the noclip branch.
C14_ZoneIsOneOfSix ==
    StepDone => PublishedZoneIn({"deep-space", "upper-atmosphere", "atmosphere", "surface",
                                 "low-atmosphere", "noclip"})

-----------------------------------------------------------------------------
(* The ground test of checkPlayerEnvironment (SpecEnv) *)

\* checkPlayerEnvironment ran with at least one planet in the list
EnvironmentChecked == result.call = "checkPlayerEnvironment" /\ world.planets # <<>>

\* some planet's surface is closer to the avatar than threshold
SurfaceWithin(threshold) ==
    \E i \in 1 .. Len(world.planets) :
        SurfaceDistance(player.position, world.planets[i]) < threshold

\* C15: when the zone stored by the previous tick is surface, onGround is true exactly
\* when the surface distance is below groundThreshold + hysteresisBand (0.8 + 1.0); for
\* any other stored zone, or none, exactly when it is below groundThreshold (0.8),
\* whatever the planet's radius.
C15_GroundHysteresis ==
    EnvironmentChecked =>
        (result.environment.onGround <=>
            IF pre.lastZone = "surface" THEN SurfaceWithin(180) ELSE SurfaceWithin(80))

\* the wider band decided a call: on the ground at a distance of 0.8 or more, on either
\* planet size
C15_Witness ==
    /\ EnvironmentChecked
    /\ pre.lastZone = "surface"
    /\ result.environment.onGround
    /\ ~SurfaceWithin(80)
    /\ world.planets[result.environment.nearest.planet].radius = 400

-----------------------------------------------------------------------------
(* Stamina and sprint (Spec) *)

\* C16: after any updateStamina call that leaves stamina at 0, player.isSprinting is
\* false (sprint is force-disabled when stamina hits 0, and the sprint multiplier stays
\* off until sprint input is released).  updateStamina is the first statement of a
\* frame and nothing later in the frame writes stamina or isSprinting.
C16_SprintDisabledAtZeroStamina ==
    (StepDone /\ result.player.stamina = 0) => ~result.player.isSprinting

\* The second half of C16, for a frame that begins with stamina 0, sprint input held and
\* isSprinting still set: the sprint multiplier is not applied in that frame.
C16_NoBoostAfterExhaustion ==
    (NormalStepDone /\ pre.stamina = 0 /\ pre.controls.sprint /\ pre.isSprinting) =>
        ~sprintBoost(result.player, pre.controls, result.environment)

\* What the code does: isSprinting is cleared only by the recharge branch, when the
\* recharged stamina is still 0 (a frame of deltaTime 0).
C16_ClearedOnlyByZeroRecharge ==
    (StepDone /\ pre.isSprinting /\ ~result.player.isSprinting) =>
        (pre.stamina = 0 /\ pre.deltaTime = 0)

-----------------------------------------------------------------------------
(* player.onGround at the end of a frame (Spec) *)

\* C17: at the end of every normal step player.onGround equals the onGround flag of the
\* collision result the step returns, and at the end of every noclip step it is false.
C17_OnGroundFromCollision ==
    /\ NormalStepDone => (result.player.onGround = result.collision.onGround)
    /\ NoclipStepDone => (result.player.onGround = FALSE)

\* the resolver overrode the classifier: a normal step whose environment says on the
\* ground while its collision result, and so the player, says not on the ground
C17_Witness ==
    /\ NormalStepDone
    /\ result.environment.onGround
    /\ ~result.collision.onGround
    /\ ~result.player.onGround

\* a noclip step that began with the avatar on the ground
C17_WitnessNoclip == NoclipStepDone /\ pre.onGround /\ ~result.player.onGround

-----------------------------------------------------------------------------
(* PlayerController.alignWithSurface (src/src/player.ts)                    *)
(* Alignment factors are in 1/100000, strengths and ratios in 1/1000.       *)
(* bodyQuaternion is the angle in degrees between the body's up axis and    *)
(* the world Y axis (the heading about the up axis is kept by the source    *)
(* and is not part of the angle); headRotation is the head's pitch.         *)

\* Math.sqrt on the integers: the largest k in lo .. hi with k * k <= n
RECURSIVE sqrtSearch(_, _, _)
sqrtSearch(n, lo, hi) ==
    IF lo >= hi THEN lo
    ELSE LET mid == (lo + hi + 1) \div 2
         IN  IF mid * mid <= n THEN sqrtSearch(n, mid, hi) ELSE sqrtSearch(n, lo, mid - 1)

sqrt(n) == sqrtSearch(n, 0, 46340)

\* lines 812-832: the nearest planet by surface distance with its escape velocity and
\* gravity factor * 0.1 (planetMass = radius * 10, G = 100), which is kept up to 1 only,
\* the value line 839 cuts it to.  A planet without geometry
\* is skipped (line 813); one whose geometry has no radius gives NaN distances and is
\* never the nearest.
RECURSIVE alignScan(_, _, _, _)
alignScan(position, planets, i, best) ==
    IF i > Len(planets) THEN best
    ELSE LET radius == planets[i].radius
             distance == Max(10, Abs(position - planets[i].position))
             surfaceDistance == distance - radius
             planetEscapeVel == sqrt(Quot(radius * 10000, distance) * 2000)
             perDistance == Quot(100000 * radius, distance)
             planetGravityFactor == IF perDistance >= 10 * distance THEN 100000
                                    ELSE Quot(perDistance * 10000, distance)
         IN  alignScan(position, planets, i + 1,
                 IF radiusIsNumber(planets[i]) /\ surfaceDistance < best.minDistance
                 THEN [nearestPlanet |-> i, minDistance |-> surfaceDistance,
                       escapeVelocity |-> planetEscapeVel,
                       gravityFactor |-> planetGravityFactor]
                 ELSE best)

\* lines 841-851: the factor is reduced once the speed passes half the escape velocity
suppressNever(alignFactor, velocityRatio) == alignFactor

suppress(alignFactor, velocityRatio) ==
    IF velocityRatio > 500
    THEN Quot(alignFactor * Max(0, 1000 - (velocityRatio - 500) * 2), 1000)
    ELSE alignFactor

\* lines 898-900: the interpolation factor of the slerp
alignStrengthInAir(onGround, alignFactor, alignmentSpeed, deltaTime) ==
    Min(1000, Quot(Quot(alignFactor * alignmentSpeed, 1000) * deltaTime * 30, 10000))

alignStrength(onGround, alignFactor, alignmentSpeed, deltaTime) ==
    IF onGround THEN 1000
    ELSE Min(1000, Quot(Quot(alignFactor * alignmentSpeed, 1000) * deltaTime * 30, 10000))

\* Quaternion.slerp on the angle
slerp(from, to, t) == from + Quot((to - from) * t, 1000)

\* lines 798-909: the call with noclip off.  Returns the player after the call and the
\* value returned; found, base and escapeVelocity are locals of the source kept for the
\* properties (base is the factor before suppression and the ground override).
alignBody(p, planets, upDirection, deltaTime, alignmentSpeed) ==
    Let(LAMBDA near :
        (IF near.nearestPlanet = null \/ near.minDistance > 50000
         THEN [player |-> [p EXCEPT !.currentUpDirection = upDirection,
                                    !.alignmentNeeded = 0],
               returned |-> FALSE, found |-> FALSE, base |-> 0, escapeVelocity |-> 0]
         ELSE LET base == Min(100000, near.gravityFactor)
                  velocityRatio == Quot(Abs(p.velocity) * 1000, Max(10, near.escapeVelocity))
                  alignFactor == IF p.onGround THEN 100000
                                 ELSE suppress(base, velocityRatio)
                  effectiveStrength ==
                      alignStrength(p.onGround, alignFactor, alignmentSpeed, deltaTime)
                  targetBodyQuat == IF upDirection > 0 THEN 0 ELSE 180
              IN  [player |-> [p EXCEPT
                                  !.currentUpDirection = upDirection,
                                  !.alignmentNeeded = alignFactor,
                                  !.alignmentStrength = effectiveStrength,
                                  !.bodyQuaternion =
                                      slerp(p.bodyQuaternion, targetBodyQuat,
                                            effectiveStrength)],
                   returned |-> alignFactor < 10000,
                   found |-> TRUE, base |-> base,
                   escapeVelocity |-> near.escapeVelocity]),
        alignScan(p.position, planets, 1,
                  [nearestPlanet |-> null, minDistance |-> Infinity,
                   escapeVelocity |-> 0, gravityFactor |-> 0]))

alignWithSurfaceInNoclip(p, planets, upDirection, deltaTime, alignmentSpeed) ==
    alignBody(p, planets, upDirection, deltaTime, alignmentSpeed)

\* lines 792-796: nothing is done in noclip mode
alignWithSurface(p, planets, upDirection, deltaTime, alignmentSpeed) ==
    IF p.noclip
    THEN [player |-> p, returned |-> FALSE, found |-> FALSE, base |-> 0,
          escapeVelocity |-> 0]
    ELSE alignBody(p, planets, upDirection, deltaTime, alignmentSpeed)

-----------------------------------------------------------------------------
(* SpecAlign: alignWithSurface called between changes of velocity and noclip *)

\* no planet, the home planet, and the home planet with a larger one 90 away
AlignPlanetLists ==
    { <<>>,
      <<Planet(0, 400, 0)>>,
      <<Planet(0, 400, 0), Planet(9000, 800, 1)>> }

\* in contact with the home planet, 1, 16, 46 and 76 above it, and 596 above it
AlignPositions == {440, 500, 2000, 5000, 8000, 60000}

\* speeds up to and beyond the escape velocities at these positions (40, 20, 12.6, 10)
AlignVelocities == {0, 1000, 2000, -3000, 4000}

AlignmentSpeeds == {50, 1000}

\* PlayerController constructor, lines 93-119, for the fields alignWithSurface reads
\* and writes
AlignPlayer(position, onGround, bodyQuaternion) ==
    [position |-> position, velocity |-> 0, onGround |-> onGround, noclip |-> FALSE,
     bodyQuaternion |-> bodyQuaternion, headRotation |-> 20,
     alignmentNeeded |-> 0, alignmentStrength |-> 0, currentUpDirection |-> 1]

\* the avatar is on the ground where it is in contact with a planet, and its body is
\* at a right angle to the world Y axis
InitAlign ==
    /\ \E planets \in AlignPlanetLists : world = InitWorld(planets)
    /\ \E position \in AlignPositions :
           player = AlignPlayer(position,
                                \E i \in 1 .. Len(world.planets) :
                                    SurfaceDistance(position, world.planets[i])
                                        < groundCollisionRadius,
                                90)
    /\ physics = InitPhysics
    /\ controls = InitControls
    /\ gameState = InitGameState
    /\ camera = 1
    /\ ui = InitUI
    /\ result = [call |-> "none", returned |-> FALSE]
    /\ pre = [player |-> player, deltaTime |-> 0, alignmentSpeed |-> 0]
    /\ hist = <<>>
    /\ ticks = 0
    /\ inputs = 0

\* the fields of the player the properties of alignWithSurface speak of
AlignSnapshot(p) ==
    [k \in {"position", "velocity", "onGround", "noclip", "bodyQuaternion",
            "headRotation", "alignmentNeeded", "alignmentStrength"} |-> p[k]]

\* Game.updatePlayer, lines 495-501: the call, with the frame's up direction and
\* deltaTime.  hist keeps the last two calls: the player before and after each, and the
\* locals found, base and escapeVelocity; pre keeps the arguments of the last call.
AlignWithSurface ==
    /\ ticks < MaxCalls
    /\ \E deltaTime \in DeltaTimes, alignmentSpeed \in AlignmentSpeeds :
        \E r \in {alignWithSurface(player, world.planets,
                                   calculateUpDirection(player.position, world.planets),
                                   deltaTime, alignmentSpeed)} :
            /\ player' = r.player
            /\ result' = [call |-> "alignWithSurface", returned |-> r.returned]
            /\ pre' = [player |-> player, deltaTime |-> deltaTime,
                        alignmentSpeed |-> alignmentSpeed]
            /\ hist' = Last(Append(hist, [before |-> AlignSnapshot(player),
                                          after |-> AlignSnapshot(r.player),
                                          found |-> r.found, base |-> r.base,
                                          escapeVelocity |-> r.escapeVelocity]), 2)
    /\ ticks' = ticks + 1
    /\ UNCHANGED <<world, physics, controls, gameState, camera, ui, inputs>>

\* the physics step before a call leaves another velocity
ChangeVelocity ==
    /\ ticks < MaxCalls
    /\ \E velocity \in AlignVelocities :
           /\ velocity # player.velocity
           /\ player' = [player EXCEPT !.velocity = velocity]
    /\ UNCHANGED <<world, physics, controls, gameState, camera, ui, result, pre, hist,
                   ticks, inputs>>

\* Game.handleKeyDown, KeyV: noclip is toggled in gameState and copied to the player
ToggleNoclip ==
    /\ ticks < MaxCalls
    /\ gameState' = [gameState EXCEPT !.noclip = ~gameState.noclip]
    /\ player' = [player EXCEPT !.noclip = ~gameState.noclip]
    /\ UNCHANGED <<world, physics, controls, camera, ui, result, pre, hist, ticks, inputs>>

NextAlign == AlignWithSurface \/ ChangeVelocity \/ ToggleNoclip

SpecAlign == InitAlign /\ [][NextAlign]_vars

-----------------------------------------------------------------------------
(* Properties of alignWithSurface (SpecAlign) *)

AlignDone == result.call = "alignWithSurface"

\* the call that has just returned, as hist records it
lastAlign == hist[Len(hist)]

\* C18: with player.noclip set alignWithSurface returns false and leaves bodyQuaternion,
\* headRotation, alignmentNeeded and alignmentStrength as they were, for every
\* upDirection, deltaTime and alignmentSpeed.
C18_NoclipAlignIsNoOp ==
    (AlignDone /\ lastAlign.before.noclip) =>
        /\ result.returned = FALSE
        /\ lastAlign.after.bodyQuaternion = lastAlign.before.bodyQuaternion
        /\ lastAlign.after.headRotation = lastAlign.before.headRotation
        /\ lastAlign.after.alignmentNeeded = lastAlign.before.alignmentNeeded
        /\ lastAlign.after.alignmentStrength = lastAlign.before.alignmentStrength

\* a noclip call 16 above the home planet, with an alignment factor and strength stored
\* by the call before it, and a body that call left turned away from the surface
C18_Witness ==
    /\ AlignDone
    /\ lastAlign.before.noclip
    /\ lastAlign.before.position = 2000
    /\ lastAlign.before.alignmentNeeded > 0
    /\ lastAlign.before.alignmentStrength > 0
    /\ lastAlign.before.bodyQuaternion > 0
    /\ world.planets # <<>>

\* a call with noclip off
AlignComputed == AlignDone /\ ~lastAlign.before.noclip

\* C19: with noclip off alignWithSurface returns true whenever the alignment factor it
\* computed is below 0.1, deep space (no planet, or the nearest surface farther than 500)
\* included, where the factor is 0; it returns false whenever the factor is 0.1 or more.
C19_TrueIffFactorBelowThreshold ==
    AlignComputed => (result.returned <=> lastAlign.after.alignmentNeeded < 10000)

\* What the code does: the test against 0.1 decides the calls that found a planet within
\* 500; the deep-space exit stores factor 0 and returns false.
C19_TrueIffPlanetFoundAndFactorBelow ==
    AlignComputed =>
        /\ lastAlign.found =>
               (result.returned <=> lastAlign.after.alignmentNeeded < 10000)
        /\ ~lastAlign.found =>
               (result.returned = FALSE /\ lastAlign.after.alignmentNeeded = 0)

\* a call that found a planet and returned true
C19_ReturnedTrue == AlignComputed /\ lastAlign.found /\ result.returned

\* the speed of the avatar at a recorded call
Speed(call) == Abs(call.before.velocity)

\* a recorded call on an avatar off the ground, with noclip off, that found a planet
\* whose gravity gives a positive alignment factor
Suppressible(call) ==
    /\ ~call.before.noclip
    /\ ~call.before.onGround
    /\ call.found
    /\ call.base > 0

\* two recorded calls at the same place, so with the same gravity-derived factor and
\* the same escape velocity
SamePlace(a, b) ==
    /\ a.before.position = b.before.position
    /\ a.base = b.base
    /\ a.escapeVelocity = b.escapeVelocity

\* C20: for an avatar off the ground with a positive gravity-derived alignment factor,
\* the stored alignmentNeeded is that factor unchanged at speeds up to half the nearest
\* planet's escape velocity, strictly decreases as the speed increases beyond half the
\* escape velocity, and is 0 at and above the escape velocity.
C20_EscapeVelocitySuppression ==
    /\ \A k \in 1 .. Len(hist) :
           Suppressible(hist[k]) =>
               /\ Speed(hist[k]) * 2 <= hist[k].escapeVelocity =>
                      hist[k].after.alignmentNeeded = hist[k].base
               /\ Speed(hist[k]) >= hist[k].escapeVelocity =>
                      hist[k].after.alignmentNeeded = 0
    /\ \A j, k \in 1 .. Len(hist) :
           ( /\ Suppressible(hist[j]) /\ Suppressible(hist[k])
             /\ SamePlace(hist[j], hist[k])
             /\ Speed(hist[j]) * 2 >= hist[j].escapeVelocity
             /\ Speed(hist[j]) < Speed(hist[k])
             /\ Speed(hist[k]) <= hist[k].escapeVelocity )
           => hist[k].after.alignmentNeeded < hist[j].after.alignmentNeeded

\* two calls one unit above the home planet (escape velocity 40), the first at speed 30
\* and the second at the escape velocity: the factor stored went from a value strictly
\* between 0 and the gravity-derived factor down to 0
C20_Witness ==
    /\ Len(hist) = 2
    /\ Suppressible(hist[1]) /\ Suppressible(hist[2])
    /\ SamePlace(hist[1], hist[2])
    /\ hist[1].escapeVelocity = 4000
    /\ Speed(hist[1]) = 3000
    /\ Speed(hist[2]) = 4000
    /\ hist[1].after.alignmentNeeded > 0
    /\ hist[1].after.alignmentNeeded < hist[1].base
    /\ hist[2].after.alignmentNeeded = 0

\* a call at exactly half the escape velocity left the factor as gravity gives it, and
\* the next call, faster but below the escape velocity, a smaller one
C20_WitnessFromHalf ==
    /\ Len(hist) = 2
    /\ Suppressible(hist[1]) /\ Suppressible(hist[2])
    /\ SamePlace(hist[1], hist[2])
    /\ Speed(hist[1]) * 2 = hist[1].escapeVelocity
    /\ hist[1].after.alignmentNeeded = hist[1].base
    /\ Speed(hist[2]) > Speed(hist[1])
    /\ Speed(hist[2]) < hist[2].escapeVelocity
    /\ hist[2].after.alignmentNeeded > 0

-----------------------------------------------------------------------------
(* The jump (Spec) *)

\* a step that takes the Space key from up to down
SpacePressed == ~controls.jump /\ controls'.jump

\* C21: the jump impulse (jumpForce along the local up direction) is added to the
\* velocity only by a Space key-down that arrives while player.onGround is true, at most
\* once per press (a key-down of a key already down does not jump again), and it sets
\* player.onGround to false; no other event between two frames changes the velocity.
C21_JumpOnlyOnGroundedPress ==
    [][ticks' = ticks =>
          IF SpacePressed /\ player.onGround
          THEN /\ player'.velocity =
                      player.velocity
                      + calculateUpDirection(player.position, world.planets)
                        * physics.jumpForce
               /\ ~player'.onGround
          ELSE /\ player'.velocity = player.velocity
               /\ player'.onGround = player.onGround]_vars

\* the avatar resting on the home planet has jumped: Space is down, the velocity is the
\* jump force upward and the avatar is off the ground, before any frame
C21_Witness ==
    /\ ticks = 0
    /\ controls.jump
    /\ player.position = 450
    /\ player.velocity = 1000
    /\ ~player.onGround

-----------------------------------------------------------------------------
(* The velocity response of handlePlanetCollisions (SpecColl) *)

\* the outward normal the last call returned
CollisionNormal == result.collision.surfaceNormal[1]

\* C22: on a collision with outward unit normal n, if v.n < 0 before the call the
\* velocity afterwards is 0.8 * (v - n * (v.n)), so its component along n is 0 and its
\* component across n is 0.8 times what it was; if v.n >= 0 the velocity is unchanged.
\* In both cases the velocity after the call has no inward component.
C22_CollisionVelocityResponse ==
    Collided =>
        /\ pre.velocity * CollisionNormal < 0 =>
               /\ player.velocity = 0
               /\ player.tangential * 10 = pre.tangential * 8
        /\ pre.velocity * CollisionNormal >= 0 =>
               /\ player.velocity = pre.velocity
               /\ player.tangential = pre.tangential
        /\ player.velocity * CollisionNormal >= 0

\* a collision met moving inward and across: the inward part is gone and the part
\* across the normal is damped
C22_Witness ==
    /\ Collided
    /\ pre.velocity * CollisionNormal < 0
    /\ pre.tangential = 250
    /\ player.tangential = 200
    /\ player.velocity = 0

-----------------------------------------------------------------------------
(* SpecSlide: frames of an avatar that moves across the axis as well as along it *)

\* above the home planet (radius 4): inside the contact radius, at it, in the ground
\* band, and in the air
SlidePositions == {430, 445, 450, 470, 600}

SlideVelocities == {-200, 0, 300}

SlideTangentials == {-300, 100, 250}

\* nothing pressed, or Space held (the jetpack pushes outward)
SlideControls == {InitControls, [InitControls EXCEPT !.jump = TRUE, !.jetpack = TRUE]}

\* The zone stored is the one a frame at the same place stores first.
InitSlide ==
    /\ world = [InitWorld(SpecPlanets) EXCEPT !.sun = <<Sun(-20000)>>]
    /\ \E position \in SlidePositions, velocity \in SlideVelocities,
          tangential \in SlideTangentials :
           /\ player = [InitPlayer EXCEPT !.position = position, !.velocity = velocity,
                                          !.tangential = tangential]
           /\ physics = [InitPhysics EXCEPT
                            !.lastZone =
                                checkPlayerEnvironment(position, world.planets, "null", 0)
                                    .atmosphereZone]
    /\ controls \in SlideControls
    /\ gameState = InitGameState
    /\ camera = 1
    /\ ui = InitUI
    /\ result = NoResult
    /\ pre = NoPre
    /\ hist = NoHist
    /\ ticks = 0
    /\ inputs = 0

\* a frame, from a position on the axis
SlideTick == player.lateral = 0 /\ Tick

NextSlide == SlideTick

SpecSlide == InitSlide /\ [][NextSlide]_vars

-----------------------------------------------------------------------------
(* Order inside a normal step (SpecSlide) *)

\* some planet's surface is within the contact radius of the position the step began at
ContactAtStart ==
    \E i \in 1 .. Len(world.planets) :
        SurfaceDistance(pre.position, world.planets[i]) < groundCollisionRadius

\* C23: in a normal step the collision is resolved on the position the step began at,
\* then the position is advanced by the collision-corrected velocity times deltaTime,
\* and only then, if the resolver reported onGround, friction is applied: at the end of
\* a grounded step the velocity has no component along the surface normal and its
\* tangential component is 0.9 times the one the position was advanced with.
C23_CollideIntegrateFriction ==
    NormalStepDone =>
        /\ result.collision.onGround <=> ContactAtStart
        /\ result.player.position =
               result.resolved.position + Quot(result.resolved.velocity * pre.deltaTime, 100)
        /\ result.player.lateral = Quot(result.resolved.tangential * pre.deltaTime, 100)
        /\ result.collision.onGround =>
               /\ result.player.velocity * result.collision.surfaceNormal[1] = 0
               /\ result.player.tangential = Quot(result.resolved.tangential * 9, 10)
        /\ ~result.collision.onGround =>
               /\ result.player.velocity = result.resolved.velocity
               /\ result.player.tangential = result.resolved.tangential

\* a grounded step that advanced the position outward and sideways with the corrected
\* velocity and then dropped the outward part and slowed the sideways part
C23_Witness ==
    /\ NormalStepDone
    /\ result.collision.onGround
    /\ result.resolved.velocity > 0
    /\ result.player.position > result.resolved.position
    /\ result.player.lateral # 0
    /\ result.player.velocity = 0
    /\ result.resolved.tangential # 0
    /\ Abs(result.player.tangential) < Abs(result.resolved.tangential)

-----------------------------------------------------------------------------
(* The interpolation factor of alignWithSurface (SpecAlign) *)

\* a call with noclip off that found a planet within range
AlignedToPlanet == AlignComputed /\ lastAlign.found

\* C24: with noclip off and a planet within range, when player.onGround is true the
\* alignment factor is forced to 1 and the interpolation factor (alignmentStrength) is
\* exactly 1 whatever the speed, distance and deltaTime; when not grounded it is
\* min(1, alignFactor * alignmentSpeed * deltaTime * 30); in every case it is in [0, 1].
C24_InterpolationFactor ==
    AlignedToPlanet =>
        /\ lastAlign.before.onGround =>
               /\ lastAlign.after.alignmentNeeded = 100000
               /\ lastAlign.after.alignmentStrength = 1000
        /\ ~lastAlign.before.onGround =>
               lastAlign.after.alignmentStrength =
                   Min(1000, (((lastAlign.after.alignmentNeeded * pre.alignmentSpeed)
                                   \div 1000) * pre.deltaTime * 30) \div 10000)
        /\ lastAlign.after.alignmentStrength \in 0 .. 1000

\* a grounded call at speed with deltaTime 0, which in the air would give factor 0
C24_Witness ==
    /\ AlignedToPlanet
    /\ lastAlign.before.onGround
    /\ lastAlign.before.velocity # 0
    /\ pre.deltaTime = 0
    /\ lastAlign.after.alignmentStrength = 1000

\* a call in the air whose interpolation factor is strictly between 0 and 1
C24_WitnessInAir ==
    /\ AlignedToPlanet
    /\ ~lastAlign.before.onGround
    /\ lastAlign.after.alignmentStrength > 0
    /\ lastAlign.after.alignmentStrength < 1000

-----------------------------------------------------------------------------
(* SpecHead: mouse look and rotation resets (PlayerController, src/src/player.ts) *)
(* Angles are in 1/10000 rad.  headRotation is the Euler triple [x, y, z] (pitch,   *)
(* yaw, roll).  A quaternion is kept symbolically: "identity", a given quaternion,  *)
(* or the product <<body, head>> of a body quaternion and a head rotation.          *)

\* line 310: the pitch is kept within a quarter turn up and down
clampPitchNot(x) == x

clampPitch(x) == Max(-halfPi, Min(halfPi, x))

\* lines 304-314: the mousemove listener; returns the player's head rotation
mouseMove(p, movementX, movementY) ==
    IF p.isLocked
    THEN [p.headRotation EXCEPT !.y = p.headRotation.y - movementX * mouseSensitivity,
                                !.x = clampPitch(p.headRotation.x
                                                 - movementY * mouseSensitivity)]
    ELSE p.headRotation

\* updateCamera, first person: camera.quaternion = bodyQuaternion * head quaternion
cameraQuaternion(p) == <<p.bodyQuaternion, p.headRotation>>

\* pixels moved between two events, along X and along Y
MouseMovements == {-900, -3, 0, 4, 900}

\* number of mouse, pointer-lock and reset events of a behaviour
MaxHeadEvents == 4

\* the quaternions handed to setRotationFromQuaternion
GivenQuaternions == {"identity", "tilted"}

\* PlayerController constructor, lines 96-98, and PointerLockControls unlocked
InitHead ==
    /\ player = [bodyQuaternion |-> "identity", headRotation |-> [x |-> 0, y |-> 0, z |-> 0],
                 isLocked |-> FALSE]
    /\ camera = <<"identity", [x |-> 0, y |-> 0, z |-> 0]>>
    /\ world = InitWorld(<<>>)
    /\ physics = InitPhysics
    /\ controls = InitControls
    /\ gameState = InitGameState
    /\ ui = InitUI
    /\ result = [call |-> "none"]
    /\ pre = [player |-> player]
    /\ hist = <<>>
    /\ ticks = 0
    /\ inputs = 0

\* an event or call of SpecHead that leaves the player as next and is named call
HeadEvent(call, next) ==
    /\ inputs < MaxHeadEvents
    /\ player' = next
    /\ camera' = IF call = "setRotationFromCamera" THEN camera ELSE cameraQuaternion(next)
    /\ result' = [call |-> call]
    /\ pre' = [player |-> player]
    /\ inputs' = inputs + 1
    /\ UNCHANGED <<world, physics, controls, gameState, ui, hist, ticks>>

\* the mousemove listener, which ends with updateCamera when the pointer is locked
MouseMove ==
    \E movementX \in MouseMovements, movementY \in MouseMovements :
        /\ HeadEvent("mousemove",
                     [player EXCEPT !.headRotation =
                                        mouseMove(player, movementX, movementY)])

\* lines 286-296: a click locks the pointer; Escape unlocks it
PointerLock == HeadEvent("lock", [player EXCEPT !.isLocked = ~player.isLocked])

\* lines 751-764
SetRotationFromCamera ==
    HeadEvent("setRotationFromCamera",
              [player EXCEPT !.bodyQuaternion = camera,
                             !.headRotation = [x |-> 0, y |-> 0, z |-> 0]])

\* lines 766-780
SetRotationFromQuaternion ==
    \E quaternion \in GivenQuaternions :
        HeadEvent("setRotationFromQuaternion",
                  [player EXCEPT !.bodyQuaternion = quaternion,
                                 !.headRotation = [x |-> 0, y |-> 0, z |-> 0]])

NextHead == MouseMove \/ PointerLock \/ SetRotationFromCamera \/ SetRotationFromQuaternion

SpecHead == InitHead /\ [][NextHead]_vars

-----------------------------------------------------------------------------
(* The head orientation (SpecHead) *)

\* C25: after any sequence of mouse-move events and rotation resets headRotation has
\* roll 0 and a pitch within [-PI/2, PI/2]; a mouse-move event changes headRotation only
\* while the pointer is locked and never changes bodyQuaternion.
C25_HeadOrientation ==
    /\ player.headRotation.z = 0
    /\ player.headRotation.x >= -halfPi
    /\ player.headRotation.x <= halfPi
    /\ result.call = "mousemove" =>
           /\ player.bodyQuaternion = pre.player.bodyQuaternion
           /\ ~pre.player.isLocked => player.headRotation = pre.player.headRotation

\* a mouse move with the pointer locked, after a reset to a tilted body, that would
\* have pitched the head past straight up and left it exactly there, turned sideways
C25_Witness ==
    /\ result.call = "mousemove"
    /\ pre.player.isLocked
    /\ player.bodyQuaternion = "tilted"
    /\ pre.player.headRotation.x > 0
    /\ player.headRotation.x = halfPi
    /\ player.headRotation.y # pre.player.headRotation.y

-----------------------------------------------------------------------------
(* The avatar and the planets' surfaces at the end of a frame (SpecDrop, Spec) *)

\* a frame of the normal step that started on or above every surface, with a frame
\* time of at most 0.1 s
NormalFrameFromOutside ==
    /\ StepDone
    /\ ~pre.noclip
    /\ pre.deltaTime <= 10
    /\ \A i \in 1 .. Len(world.planets) : SurfaceDistance(pre.position, world.planets[i]) >= 0

-----------------------------------------------------------------------------
(* The outputs of one classification (SpecEnv) *)

\* C27: the outputs of one checkPlayerEnvironment call agree: the returned onGround is
\* true exactly when the returned atmosphereZone is "surface", on every call of every
\* sequence of calls.
C27_OnGroundIffSurfaceZone ==
    EnvironmentChecked =>
        (result.environment.onGround <=> result.environment.atmosphereZone = "surface")

-----------------------------------------------------------------------------
(* Discovery points and purchases (Spec) *)

\* C28: discoveryPoints is never negative after any sequence of discoveries, station
\* interactions, menu openings and purchases: an upgrade can be bought only when the
\* current points are at least its cost (the points an open menu was built with never
\* exceed the current ones, and only the options they cover can be clicked).
C28_PointsNeverNegative ==
    /\ gameState.discoveryPoints >= 0
    /\ ui.display = "block" => ui.discoveryPoints <= gameState.discoveryPoints

\* Enhanced Fuel Capacity bought for all of the 300 points at the third planet's station
C28_Witness ==
    /\ player.maxFuel = Quot(InitPlayer.maxFuel * 3, 2)
    /\ gameState.discoveryPoints = 0
    /\ ui.display = "none"

-----------------------------------------------------------------------------
(* SpecVisit: frames near the home planet and the next one, before and after a visit *)
(* to the other.  lastPlanetVisited is set by a landing on any planet, unlocked or    *)
(* not; the second planet is unlocked by the Basic Scanner.                           *)

\* above the home planet: inside the contact radius, in the ground band, in the air;
\* below the second planet (centre 24, radius 4): in the air and inside the contact radius
VisitPositions == {440, 470, 1000, 1900, 1960}

VisitVelocities == {0, 100}

InitVisit ==
    /\ \E position \in VisitPositions, velocity \in VisitVelocities,
          lastPlanetVisited \in {0, 1}, secondUnlocked \in BOOLEAN :
           /\ world = [InitWorld(SpecPlanets) EXCEPT !.sun = <<Sun(-20000)>>,
                                                     !.unlocked[2] = secondUnlocked]
           /\ player = [InitPlayer EXCEPT !.position = position, !.velocity = velocity,
                                          !.lastPlanetVisited = lastPlanetVisited]
           /\ physics = [InitPhysics EXCEPT
                            !.lastZone =
                                checkPlayerEnvironment(position, world.planets, "null", 0)
                                    .atmosphereZone]
           /\ gameState = [InitGameState EXCEPT
                              !.nearInteractable =
                                  isUpgradeStationNearby(position, world, 2000) >= 0]
    /\ controls = InitControls
    /\ camera = 1
    /\ ui = InitUI
    /\ result = NoResult
    /\ pre = NoPre
    /\ hist = NoHist
    /\ ticks = 0
    /\ inputs = 0

NextVisit == Tick

SpecVisit == InitVisit /\ [][NextVisit]_vars

-----------------------------------------------------------------------------
(* Discovery points per event (SpecVisit) *)

\* the frame just taken landed on an unlocked planet that was not yet discovered
LandingDiscovery ==
    /\ result'.collision.collidedPlanet # null
    /\ LET index == world.planets[result'.collision.collidedPlanet].index
       IN  ~gameState.planetDiscovered[index + 1] /\ world.unlocked[index + 1]

\* C29: discovery points are granted per discovery event, not per frame: a landing on
\* an unlocked, undiscovered planet awards 50 * (index + 1) points and marks the planet
\* discovered (so at most once for that planet), and any other frame, such as one that
\* stays within 50 of an unlocked planet without landing on it, leaves the points as
\* they are.
C29_PointsPerDiscoveryEvent ==
    [][ticks' # ticks =>
          IF LandingDiscovery
          THEN LET index == world.planets[result'.collision.collidedPlanet].index
               IN  /\ gameState'.discoveryPoints = gameState.discoveryPoints + 50 * (index + 1)
                   /\ gameState'.planetDiscovered[index + 1]
          ELSE gameState'.discoveryPoints = gameState.discoveryPoints]_vars

-----------------------------------------------------------------------------
(* The Shift key (Spec) *)

\* C30: the Shift key drives one intent at a time: after any sequence of key-down and
\* key-up events and frames, controls.sprint and controls.downThrusters are never both
\* true.
C30_SprintXorDownThrusters == ~(controls.sprint /\ controls.downThrusters)
====
